---- MODULE Spec2Model ----
(***************************************************************************)
(* Single-disk plot of the Subspace farmer                                 *)
(* (crates/subspace-farmer/src/single_disk_plot.rs).                       *)
(*                                                                         *)
(* One directory holds single_disk_plot.json (the descriptor),             *)
(* metadata.bin (header + one record per sector) and plot.bin (the         *)
(* sectors).  SingleDiskPlot::new opens the directory and spawns the       *)
(* plotting, farming and reading threads; run() sends the start signal,    *)
(* dropping the plot sends the stop signal.                                *)
(*                                                                         *)
(* Files are modelled with the two views the code relies on: the page      *)
(* cache (what every memory map of the process reads and writes, and what  *)
(* survives a kill of the process) and the durable copy (what survives a   *)
(* loss of power).  `dirty_*` is the part of the page cache that no        *)
(* flush() has made durable yet.                                           *)
(*                                                                         *)
(* plot.bin is an array of units; sector_size is counted in units.  A unit *)
(* holds <<kind, sector offset, sector size, run>>: which plot_sector call *)
(* wrote it ("data"), began to write it ("torn"), or nothing ("zero").     *)
(***************************************************************************)
EXTENDS Integers, Sequences, FiniteSets, TLC

\* ---------------------------------------------------------------- bounds
MaxAllocated == 4      \* allocated_space of the options, in units
MaxPieces == 2         \* max_pieces_in_sector of the options
MaxOpens == 2          \* calls of SingleDiskPlot::new on the directory
MaxSlots == 3          \* slots the node's stream delivers to one process
MaxCandidates == 2     \* audit candidates of one sector for one slot
MaxVersion == 1        \* version byte of a metadata.bin another release wrote
IndexBits == 2         \* bits of u32 in the model; u64 and usize have twice as many

\* ------------------------------------------------------------- constants
SOLUTIONS_LIMIT == 1
SUPPORTED_PLOT_VERSION == 0

AllocatedSpaces == {1, MaxAllocated}
\* farmer_app_info.genesis_hash: the chain of the node, and another chain.
Genesis == "genesis"
Chains == {Genesis, "other"}
\* The version byte a metadata.bin header may carry.
Versions == 0..MaxVersion
\* The key of an identity file that no open of this history created.
ForeignKey == MaxOpens + 2
\* The files of a plot directory.
PLOT_FILE == "plot.bin"
METADATA_FILE == "metadata.bin"
IDENTITY_FILE == "identity.bin"
FILE_NAME == "single_disk_plot.json"
PiecesChoices == 1..MaxPieces
\* `u32::MAX`, and the number of values of a u64 (SectorIndex, as_secs()).
U32_MAX == 2^IndexBits - 1
U64_VALUES == 2^(2 * IndexBits)
Units == 0..(MaxAllocated - 1)

VARIABLES
    \* -------- the directory (survives the process)
    desc,              \* single_disk_plot.json
    identity,          \* public key of the identity file (NoIdentity: no file)
    meta_exists,       \* metadata.bin has a non-zero length
    hdr_version,       \* header version byte of metadata.bin
    plot_exists,       \* plot.bin exists
    hdr_mmap,          \* header sector_count, page cache (metadata_header_mmap)
    hdr_disk,          \* header sector_count, durable
    meta,              \* sector metadata records, page cache
    dirty_meta,        \* records written and not flushed
    plot,              \* plot.bin units, page cache
    dirty_plot,        \* units written and not flushed
    opens,             \* number of SingleDiskPlot::new calls so far
    \* -------- the process
    phase,             \* "closed", "opening", "ready", "running", "stopping"
    opts,              \* SingleDiskPlotOptions of the current open
    open_error,        \* Err(..) of the last SingleDiskPlot::new, or "none"
    started,           \* run() has sent the start signal
    metadata_header,   \* PlotMetadataHeader.sector_count of the plotting thread
    sectors_metadata,  \* Arc<RwLock<Vec<SectorMetadata>>>
    plot_pc,           \* position of the plotting thread
    sector_offset,     \* loop variable of the plotting thread
    sector_plotted,    \* offsets handed to handlers.sector_plotted, in order
    error_chan,        \* what error_sender has sent ("none": nothing yet)
    lock_readers,      \* threads holding a read guard of sectors_metadata
    \* -------- slot forwarder task and farming thread
    next_slot,         \* number of the next slot of the node's stream
    fwd_pc,            \* "idle" (not polled yet), "subscribed", "failed"
    chan,              \* mpsc::channel::<SlotInfo>(0): the messages queued
    farm_pc,           \* position of the farming thread
    farm_slot,         \* slot_info.slot_number of the slot in progress
    farm_i,            \* position of the iteration over the sectors
    solutions,         \* `solutions` of the slot in progress (sector offsets)
    submitted,         \* submit_solution_response calls, in order
    solution_events,   \* handlers.solution calls, in order
    received,          \* slot numbers the farming thread received, in order
    busy_arrivals,     \* slots that arrived while a slot was being processed
    skipped,           \* slots whose try_send failed
    \* -------- reading thread
    read_pc,           \* "none", "idle", "read_piece", "dropped", "exited", "panicked"
    read_off,          \* sector offset of the request in progress
    \* -------- history
    crashed,           \* the process when the last crash hit
    layouts,           \* the sector sizes the directory has been opened with
    opened_sector_count, \* the header sector_count the current open found
    opened_plot,       \* the units of plot.bin as the current open found them
    \* -------- SingleDiskPlot::wipe
    wipe_pc,           \* the file the call is about to remove, or "none"
    wipe_removed,      \* the files the last call has removed, in order
    wipe_result,       \* what the last call returned (<<"none">>: not returned)
    \* -------- run() and the plotting semaphore
    run_result,        \* the Err(..) run() returns ("none": it has not returned one)
    tasks_done,        \* the tasks of `tasks` that ended with Err, oldest first
    permit_holders,    \* who holds a reference to a plotting permit
    \* -------- the system clock
    clock              \* SystemTime::UNIX_EPOCH.elapsed().as_secs()

diskVars == <<desc, identity, meta_exists, hdr_version, plot_exists, hdr_mmap, hdr_disk, meta,
              dirty_meta, plot, dirty_plot>>
plotVars == <<metadata_header, sectors_metadata, plot_pc, sector_offset, sector_plotted>>
procVars == <<phase, opts, open_error, started, error_chan>>
farmVars == <<next_slot, fwd_pc, chan, farm_pc, farm_slot, farm_i, solutions, submitted,
              solution_events, received, busy_arrivals, skipped>>
readVars == <<read_pc, read_off>>
workVars == <<lock_readers, farmVars, readVars>>
histVars == <<crashed, layouts, opened_sector_count, opened_plot>>
wipeVars == <<wipe_pc, wipe_removed, wipe_result>>
ctlVars == <<run_result, tasks_done, permit_holders>>
vars == <<diskVars, opens, procVars, plotVars, workVars, histVars, wipeVars, ctlVars,
          clock>>

\* ------------------------------------------------------------- helpers
NoDesc == [pieces_in_sector |-> 0, allocated_space |-> 0, genesis_hash |-> "none",
           public_key |-> 0, first_sector_index |-> 0]
NoOpts == [allocated_space |-> 0, max_pieces_in_sector |-> 0, genesis_hash |-> "none"]
NoIdentity == 0
NoError == <<"none">>
ZeroUnit == <<"zero", 0, 0, 0>>
NoCrash == [kind |-> "none", vector |-> <<>>, committed |-> <<>>, header |-> 0,
            sector |-> 0, stage |-> "none", opts |-> NoOpts, opens |-> 0]

Min(a, b) == IF a < b THEN a ELSE b

\* u64::wrapping_mul and the `-` of two u64 where overflow is not checked.
wrapping_mul(a, b) == (a * b) % U64_VALUES
wrapping_sub(a, b) == (a - b + U64_VALUES) % U64_VALUES

\* sector_size(pieces_in_sector) of subspace_farmer_components: a size that grows
\* with the number of pieces; counted in units of plot.bin.
sector_size(pieces) == pieces

\* `let sector_size = sector_size(max_pieces_in_sector);`
SectorSizeInUse == sector_size(opts.max_pieces_in_sector)

\* `(single_disk_plot_info.allocated_space() / sector_size as u64) as usize`
target_sector_count == desc.allocated_space \div SectorSizeInUse

\* The units of plot.bin that the window `.offset(sector_offset * sector_size)
\* .len(sector_size)` maps.
Window(k) == {u \in Units : k * SectorSizeInUse <= u /\ u < (k + 1) * SectorSizeInUse}

Torn(v) == <<"torn", v[2], v[3], v[4]>>


\* ------------------------------------------------------------------ Init
\* No sector in plot.bin and metadata.bin.
NothingPlotted ==
    /\ hdr_mmap = 0
    /\ hdr_disk = 0
    /\ meta = [k \in Units |-> ZeroUnit]
    /\ dirty_meta = {}
    /\ plot = [u \in Units |-> ZeroUnit]
    /\ dirty_plot = {}

\* A directory with none of the four files.
FreshDirectory ==
    /\ desc = NoDesc
    /\ identity = NoIdentity
    /\ meta_exists = FALSE
    /\ hdr_version = SUPPORTED_PLOT_VERSION
    /\ plot_exists = FALSE
    /\ NothingPlotted

\* A plot created by a release of the farmer whose metadata header has version
\* `version`, opened and dropped before it plotted a sector.
LeftByRelease(version) ==
    /\ desc = [pieces_in_sector |-> 1, allocated_space |-> MaxAllocated,
               genesis_hash |-> Genesis, public_key |-> ForeignKey,
               first_sector_index |-> 0]
    /\ identity = ForeignKey
    /\ meta_exists = TRUE
    /\ hdr_version = version
    /\ plot_exists = TRUE
    /\ NothingPlotted

\* No process has opened the directory, no wipe was called.
NoProcess ==
    /\ opens = 0
    /\ phase = "closed"
    /\ opts = NoOpts
    /\ open_error = NoError
    /\ started = FALSE
    /\ metadata_header = 0
    /\ sectors_metadata = <<>>
    /\ plot_pc = "none"
    /\ sector_offset = 0
    /\ sector_plotted = <<>>
    /\ error_chan = "none"
    /\ lock_readers = {}
    /\ next_slot = 1
    /\ fwd_pc = "idle"
    /\ chan = <<>>
    /\ farm_pc = "none"
    /\ farm_slot = 0
    /\ farm_i = 0
    /\ solutions = <<>>
    /\ submitted = <<>>
    /\ solution_events = <<>>
    /\ received = <<>>
    /\ busy_arrivals = {}
    /\ skipped = {}
    /\ read_pc = "none"
    /\ read_off = 0
    /\ crashed = NoCrash
    /\ layouts = {}
    /\ opened_sector_count = 0
    /\ opened_plot = [u \in Units |-> ZeroUnit]
    /\ wipe_pc = "none"
    /\ wipe_removed = <<>>
    /\ wipe_result = <<"none">>
    /\ run_result = "none"
    /\ tasks_done = <<>>
    /\ permit_holders = {}
    /\ clock = 0

\* A fresh directory and no process.
Init == FreshDirectory /\ NoProcess

\* A fresh directory, or one that another release of the farmer left.
InitDir ==
    /\ FreshDirectory \/ \E version \in Versions : LeftByRelease(version)
    /\ NoProcess

\* The process is gone: every in-memory value is back to its initial value.
ProcessGone ==
    /\ phase' = "closed"
    /\ opts' = NoOpts
    /\ started' = FALSE
    /\ metadata_header' = 0
    /\ sectors_metadata' = <<>>
    /\ plot_pc' = "none"
    /\ sector_offset' = 0
    /\ sector_plotted' = <<>>
    /\ error_chan' = "none"
    /\ lock_readers' = {}
    /\ next_slot' = 1
    /\ fwd_pc' = "idle"
    /\ chan' = <<>>
    /\ farm_pc' = "none"
    /\ farm_slot' = 0
    /\ farm_i' = 0
    /\ solutions' = <<>>
    /\ submitted' = <<>>
    /\ solution_events' = <<>>
    /\ received' = <<>>
    /\ busy_arrivals' = {}
    /\ skipped' = {}
    /\ read_pc' = "none"
    /\ read_off' = 0
    /\ opened_sector_count' = 0
    /\ opened_plot' = [u \in Units |-> ZeroUnit]
    /\ tasks_done' = <<>>
    /\ permit_holders' = {}

\* ------------------------------------------------------- SingleDiskPlot::new
\* `Identity::open_or_create(&directory)`: the key of the identity file, which is
\* created with a key no earlier file had when the directory holds none.
OpenOrCreateIdentity == IF identity = NoIdentity THEN opens + 1 ELSE identity

\* An open that records the error and goes on to the files all the same.
OpenGoesOn(err) ==
    /\ open_error' = err
    /\ phase' = "opening"
    /\ UNCHANGED <<opts, desc, layouts>>

\* An open that fails after it stored a descriptor.
OpenFailsStored(err) ==
    /\ open_error' = err
    /\ desc' = [desc EXCEPT !.public_key = identity']
    /\ UNCHANGED <<phase, opts, layouts>>

\* `SystemTime::UNIX_EPOCH.elapsed().as_secs().wrapping_mul(u64::from(u32::MAX))`
first_sector_index == wrapping_mul(clock, U32_MAX)

\* Descriptor: validate the stored one, or create it.
OpenFails(err) ==
    /\ open_error' = err
    /\ UNCHANGED <<phase, opts, desc, layouts>>

\* An open that stores the larger max_pieces_in_sector of its options.
UpgradedDescriptor(max_pieces_in_sector) ==
    [desc EXCEPT !.pieces_in_sector = max_pieces_in_sector]

\* `Some(single_disk_plot_info) => { .. single_disk_plot_info }`: a descriptor
\* that passed the checks is used as it was loaded (a larger max_pieces_in_sector
\* is logged), and nothing is stored.
LoadedDescriptor(max_pieces_in_sector) == desc

OpenContinues(allocated_space, max_pieces_in_sector, genesis_hash) ==
    /\ phase' = "opening"
    /\ opts' = [allocated_space |-> allocated_space,
                max_pieces_in_sector |-> max_pieces_in_sector,
                genesis_hash |-> genesis_hash]
    /\ open_error' = NoError
    /\ layouts' = layouts \cup {sector_size(max_pieces_in_sector)}

OpenDescriptor(allocated_space, max_pieces_in_sector, genesis_hash) ==
    /\ phase = "closed"
    /\ opens' = opens + 1
    /\ identity' = OpenOrCreateIdentity
    /\ LET public_key == OpenOrCreateIdentity
       IN  IF desc # NoDesc
           THEN IF allocated_space # desc.allocated_space
                THEN OpenFails(<<"CantResize">>)
                ELSE IF genesis_hash # desc.genesis_hash
                THEN OpenFails(<<"WrongChain">>)
                ELSE IF public_key # desc.public_key
                THEN OpenFails(<<"IdentityMismatch">>)
                ELSE IF max_pieces_in_sector < desc.pieces_in_sector
                THEN OpenFails(<<"InvalidPiecesInSector">>)
                ELSE /\ OpenContinues(allocated_space, max_pieces_in_sector,
                                      genesis_hash)
                     /\ desc' = LoadedDescriptor(max_pieces_in_sector)
           ELSE IF allocated_space \div sector_size(max_pieces_in_sector) = 0
                THEN OpenFails(<<"InsufficientAllocatedSpace">>)
                ELSE /\ desc' = [pieces_in_sector |-> max_pieces_in_sector,
                                 allocated_space |-> allocated_space,
                                 genesis_hash |-> genesis_hash,
                                 public_key |-> public_key,
                                 first_sector_index |-> first_sector_index]
                     /\ OpenContinues(allocated_space, max_pieces_in_sector,
                                      genesis_hash)
    /\ UNCHANGED <<meta_exists, hdr_version, plot_exists, hdr_mmap, hdr_disk, meta,
                   dirty_meta, plot, dirty_plot>>
    /\ UNCHANGED <<started, error_chan, plotVars, workVars, crashed, opened_sector_count,
                   opened_plot>>
    /\ UNCHANGED wipeVars
    /\ UNCHANGED clock
    /\ run_result' = "none"
    /\ UNCHANGED <<tasks_done, permit_holders>>

\* SectorMetadata::decode of one record of metadata.bin.
DecodesAsSectorMetadata(record) == record[1] = "data"

\* The header as the disk holds it, not as the page cache does.
DurableHeader == IF meta_exists THEN hdr_disk ELSE 0

\* `PlotMetadataHeader::decode` of the stored header, or the header written into
\* a metadata.bin that was empty.
DecodedHeader == IF meta_exists THEN hdr_mmap ELSE 0

\* A check that lets every version through.
AnyVersion(version) == version \notin Versions

\* `metadata_header.version != Self::SUPPORTED_PLOT_VERSION`
UnexpectedVersion(version) == version # SUPPORTED_PLOT_VERSION

\* metadata.bin is created with a fresh header when it is empty; otherwise its
\* header is decoded and its version checked.  Then the vector is loaded from the
\* first sector_count records (chunks_exact(..).take(sector_count) over a map of
\* target_sector_count records), plot.bin is created or opened and preallocated,
\* and the threads are spawned.
OpenFiles ==
    /\ phase = "opening"
    /\ LET header == DecodedHeader
           loaded == Min(header, target_sector_count)
       IN  IF meta_exists /\ UnexpectedVersion(hdr_version)
           THEN /\ open_error' = <<"UnexpectedMetadataVersion", hdr_version>>
                /\ ProcessGone
                /\ UNCHANGED <<hdr_mmap, hdr_disk, hdr_version, plot_exists>>
           ELSE IF \E i \in 0..(loaded - 1) : ~DecodesAsSectorMetadata(meta[i])
           THEN /\ open_error' = <<"FailedToDecodeSectorMetadata">>
                /\ ProcessGone
                /\ hdr_version' = SUPPORTED_PLOT_VERSION
                /\ UNCHANGED <<hdr_mmap, hdr_disk, plot_exists>>
           ELSE /\ metadata_header' = header
                /\ opened_sector_count' = header
                /\ opened_plot' = plot
                /\ hdr_mmap' = header
                /\ hdr_disk' = IF meta_exists THEN hdr_disk ELSE 0
                /\ hdr_version' = SUPPORTED_PLOT_VERSION
                /\ plot_exists' = TRUE
                /\ sectors_metadata' = [i \in 1..loaded |-> meta[i - 1]]
                /\ phase' = "ready"
                /\ plot_pc' = "wait_start"
                /\ farm_pc' = "wait_start"
                /\ read_pc' = "idle"
                /\ UNCHANGED <<opts, open_error, started, sector_offset,
                               sector_plotted, error_chan, lock_readers, next_slot,
                               fwd_pc, chan, farm_slot, farm_i, solutions, submitted,
                               solution_events, received, busy_arrivals, skipped,
                               read_off, tasks_done, permit_holders>>
    /\ meta_exists' = TRUE
    /\ UNCHANGED <<desc, identity, meta, dirty_meta, plot, dirty_plot, opens, crashed,
                   layouts>>
    /\ UNCHANGED wipeVars
    /\ UNCHANGED clock
    /\ UNCHANGED run_result

\* --------------------------------------------------------------- lifecycle
\* A second passes before the directory is opened for the first time.
Tick ==
    /\ phase = "closed"
    /\ desc = NoDesc
    /\ clock < U64_VALUES - 1
    /\ clock' = clock + 1
    /\ UNCHANGED <<diskVars, opens, procVars, plotVars, workVars, histVars>>
    /\ UNCHANGED wipeVars
    /\ UNCHANGED ctlVars

\* run(): `start_sender.send(())`.
Run ==
    /\ phase = "ready"
    /\ phase' = "running"
    /\ started' = TRUE
    /\ UNCHANGED <<diskVars, opens, opts, open_error, error_chan, plotVars, workVars,
                   histVars>>
    /\ UNCHANGED wipeVars
    /\ UNCHANGED clock
    /\ UNCHANGED ctlVars

\* The error a task of `tasks` ended with: the first task returns what
\* error_receiver got, the slot forwarder the error of its subscription.
TaskError(task) == IF task = "error" THEN error_chan ELSE "FailedToSubscribeSlotInfo"

\* A stream that yields the task that ended last.
LastTaskDone == tasks_done[Len(tasks_done)]

\* `self.tasks.next()`: FuturesUnordered yields the results of the tasks in the
\* order the tasks ended.
FirstTaskDone == Head(tasks_done)

\* `while let Some(result) = self.tasks.next().await { result?; }`: run() returns
\* the first Err of a task; `self` is dropped on the way out, which is Drop.
RunReturns ==
    /\ phase = "running"
    /\ tasks_done # <<>>
    /\ run_result' = TaskError(FirstTaskDone)
    /\ phase' = "stopping"
    /\ UNCHANGED <<diskVars, opens, opts, open_error, started, error_chan, plotVars,
                   workVars, histVars>>
    /\ UNCHANGED wipeVars
    /\ UNCHANGED clock
    /\ UNCHANGED <<tasks_done, permit_holders>>

\* Drop for SingleDiskPlot: start_sender and stop_sender are taken.
Drop ==
    /\ phase \in {"ready", "running"}
    /\ phase' = "stopping"
    /\ UNCHANGED <<diskVars, opens, opts, open_error, started, error_chan, plotVars,
                   workVars, histVars>>
    /\ UNCHANGED wipeVars
    /\ UNCHANGED clock
    /\ UNCHANGED ctlVars

\* An error sender that every failing thread can send through.
SendEveryError(error) ==
    /\ error_chan' = error
    /\ tasks_done' = IF error_chan = "none" THEN Append(tasks_done, "error")
                                            ELSE tasks_done

\* `if let Some(error_sender) = error_sender.lock().take() { error_sender.send(..) }`:
\* the thread that fails first takes the sender out of the shared Option and
\* sends its error, which ends the task that awaits error_receiver; a thread that
\* fails later finds None.
SendError(error) ==
    IF error_chan = "none"
    THEN /\ error_chan' = error
         /\ tasks_done' = Append(tasks_done, "error")
    ELSE UNCHANGED <<error_chan, tasks_done>>

\* A select() that returns the stop between the header rewrite and the push too.
AwaitsAndPush == {"wait_start", "permit", "app_info", "plot_sector", "writing", "push"}

\* The await points of initial_plotting_fut, where select() returns the stop.
PlotAwaits == {"wait_start", "permit", "app_info", "plot_sector", "writing"}

\* The plotting thread has returned, or it is at an await point and its select()
\* returns the stop (a start_receiver whose sender was dropped returns too).
PlotExited == plot_pc \in {"exited", "failed"} \cup PlotAwaits

\* The farming thread has returned, or its select() returns the stop: it waits
\* for the start signal or for a slot, and none is queued.
FarmExited ==
    \/ farm_pc \in {"exited", "failed", "aborted", "wait_start"}
    \/ farm_pc = "recv" /\ chan = <<>>

\* The same for the reading thread, which waits for a request, or has panicked.
ReadExited == read_pc \in {"exited", "idle", "panicked"}

\* The JoinOnDrop handles have joined every thread: the process is over.
Exit ==
    /\ phase = "stopping"
    /\ PlotExited
    /\ FarmExited
    /\ ReadExited
    /\ ProcessGone
    /\ UNCHANGED <<diskVars, opens, open_error, crashed, layouts>>
    /\ UNCHANGED wipeVars
    /\ UNCHANGED clock
    /\ UNCHANGED run_result

\* ------------------------------------------------------------ plotting thread
\* A range that starts at offset 0 whatever the header says.
AllSectorOffsets == [start |-> 0, end |-> target_sector_count]

\* `metadata_header.sector_count as usize..target_sector_count`
sectors_offsets_left_to_plot ==
    [start |-> metadata_header, end |-> target_sector_count]

\* A plotting thread that does not wait for the start signal.
PlotStartsUnasked ==
    /\ plot_pc = "wait_start"
    /\ plot_pc' = "loop"
    /\ sector_offset' = sectors_offsets_left_to_plot.start
    /\ UNCHANGED <<diskVars, opens, procVars, metadata_header, sectors_metadata,
                   sector_plotted, workVars, histVars>>
    /\ UNCHANGED wipeVars
    /\ UNCHANGED clock
    /\ UNCHANGED ctlVars

\* `start_receiver.recv().await`
PlotStart ==
    /\ plot_pc = "wait_start"
    /\ started
    /\ plot_pc' = "loop"
    /\ sector_offset' = sectors_offsets_left_to_plot.start
    /\ UNCHANGED <<diskVars, opens, procVars, metadata_header, sectors_metadata,
                   sector_plotted, workVars, histVars>>
    /\ UNCHANGED wipeVars
    /\ UNCHANGED clock
    /\ UNCHANGED ctlVars

\* `for sector_offset in sectors_offsets_left_to_plot`: the two windows are mapped.
PlotLoop ==
    /\ plot_pc = "loop"
    /\ plot_pc' = IF sector_offset < sectors_offsets_left_to_plot.end
                  THEN "permit" ELSE "exited"
    /\ UNCHANGED <<diskVars, opens, procVars, metadata_header, sectors_metadata,
                   sector_offset, sector_plotted, workVars, histVars>>
    /\ UNCHANGED wipeVars
    /\ UNCHANGED clock
    /\ UNCHANGED ctlVars

\* A semaphore that hands out its permit while somebody holds it.
PermitUnchecked == permit_holders \subseteq {"worker", "subscriber"}

\* A semaphore that never hands out its permit.
PermitRefused == permit_holders # permit_holders

\* A semaphore that counts the permits the workers hold and forgets those a
\* subscriber keeps.
PermitWhileRetained == permit_holders \cap {"worker", "other_worker"} = {}

\* The permits of `concurrent_plotting_semaphore`, which the caller creates and
\* shares between its plots.
PlottingPermits == 1

\* acquire_owned() returns a permit when fewer than all permits are out: a
\* permit is out until every reference to it has been dropped.
PermitAvailable == Cardinality(permit_holders) < PlottingPermits

\* A worker that returns the error of a closed semaphore with `?`.
PlotPermitFails(closed) ==
    /\ plot_pc = "permit"
    /\ closed \/ PermitAvailable
    /\ plot_pc' = IF closed THEN "failed" ELSE "app_info"
    /\ permit_holders' = IF closed THEN permit_holders
                                    ELSE permit_holders \cup {"worker"}
    /\ IF closed THEN SendError("Io") ELSE UNCHANGED <<error_chan, tasks_done>>
    /\ UNCHANGED <<diskVars, opens, phase, opts, open_error, started, metadata_header,
                   sectors_metadata, sector_offset, sector_plotted, workVars, histVars>>
    /\ UNCHANGED wipeVars
    /\ UNCHANGED clock
    /\ UNCHANGED run_result

\* `concurrent_plotting_semaphore.clone().acquire_owned().await`: the permit, or
\* the error of a closed semaphore.
PlotPermit(closed) ==
    /\ plot_pc = "permit"
    /\ closed \/ PermitAvailable
    /\ plot_pc' = IF closed THEN "exited" ELSE "app_info"
    /\ permit_holders' = IF closed THEN permit_holders
                                    ELSE permit_holders \cup {"worker"}
    /\ UNCHANGED <<diskVars, opens, procVars, metadata_header, sectors_metadata,
                   sector_offset, sector_plotted, workVars, histVars>>
    /\ UNCHANGED wipeVars
    /\ UNCHANGED clock
    /\ UNCHANGED <<run_result, tasks_done>>

\* `node_client.farmer_app_info().await`
PlotAppInfo ==
    /\ plot_pc = "app_info"
    /\ plot_pc' = "plot_sector"
    /\ UNCHANGED <<diskVars, opens, procVars, metadata_header, sectors_metadata,
                   sector_offset, sector_plotted, workVars, histVars>>
    /\ UNCHANGED wipeVars
    /\ UNCHANGED clock
    /\ UNCHANGED ctlVars

\* plot_sector writes into the two windows while it awaits pieces.
PlotSectorWrite ==
    /\ plot_pc = "plot_sector"
    /\ plot_pc' = "writing"
    /\ plot' = [u \in Units |-> IF u \in Window(sector_offset)
                                THEN <<"torn", sector_offset, SectorSizeInUse, opens>>
                                ELSE plot[u]]
    /\ dirty_plot' = dirty_plot \cup Window(sector_offset)
    /\ meta' = [meta EXCEPT ![sector_offset] = <<"torn", sector_offset, SectorSizeInUse, opens>>]
    /\ dirty_meta' = dirty_meta \cup {sector_offset}
    /\ UNCHANGED <<desc, identity, meta_exists, hdr_version, plot_exists, hdr_mmap, hdr_disk, opens, procVars,
                   metadata_header, sectors_metadata, sector_offset, sector_plotted, workVars, histVars>>
    /\ UNCHANGED wipeVars
    /\ UNCHANGED clock
    /\ UNCHANGED ctlVars

\* plot_sector returns Ok(plotted_sector): both windows hold the whole sector.
PlotSectorOk ==
    /\ plot_pc = "writing"
    /\ plot_pc' = "flush_sector"
    /\ plot' = [u \in Units |-> IF u \in Window(sector_offset)
                                THEN <<"data", sector_offset, SectorSizeInUse, opens>>
                                ELSE plot[u]]
    /\ dirty_plot' = dirty_plot \cup Window(sector_offset)
    /\ meta' = [meta EXCEPT ![sector_offset] = <<"data", sector_offset, SectorSizeInUse, opens>>]
    /\ dirty_meta' = dirty_meta \cup {sector_offset}
    /\ UNCHANGED <<desc, identity, meta_exists, hdr_version, plot_exists, hdr_mmap, hdr_disk, opens, procVars,
                   metadata_header, sectors_metadata, sector_offset, sector_plotted, workVars, histVars>>
    /\ UNCHANGED wipeVars
    /\ UNCHANGED clock
    /\ UNCHANGED ctlVars

\* A flush that returns without having written anything back.
UnflushedPlot == dirty_plot

\* `sector.flush()?`
FlushedPlot == dirty_plot \ Window(sector_offset)

PlotFlushSector ==
    /\ plot_pc = "flush_sector"
    /\ plot_pc' = "flush_meta"
    /\ dirty_plot' = FlushedPlot
    /\ UNCHANGED <<desc, identity, meta_exists, hdr_version, plot_exists, hdr_mmap, hdr_disk, meta, dirty_meta, plot, opens,
                   procVars, metadata_header, sectors_metadata, sector_offset,
                   sector_plotted, workVars, histVars>>
    /\ UNCHANGED wipeVars
    /\ UNCHANGED clock
    /\ UNCHANGED ctlVars

\* The same for the flush of the metadata record.
UnflushedMeta == dirty_meta

\* `sector_metadata.flush()?`
FlushedMeta == dirty_meta \ {sector_offset}

PlotFlushMeta ==
    /\ plot_pc = "flush_meta"
    /\ plot_pc' = "commit"
    /\ dirty_meta' = FlushedMeta
    /\ UNCHANGED <<desc, identity, meta_exists, hdr_version, plot_exists, hdr_mmap, hdr_disk, meta, plot, dirty_plot, opens,
                   procVars, metadata_header, sectors_metadata, sector_offset,
                   sector_plotted, workVars, histVars>>
    /\ UNCHANGED wipeVars
    /\ UNCHANGED clock
    /\ UNCHANGED ctlVars

\* `metadata_header.sector_count += 1; metadata_header_mmap.copy_from_slice(..)`
PlotCommit ==
    /\ plot_pc = "commit"
    /\ plot_pc' = "push"
    /\ metadata_header' = metadata_header + 1
    /\ hdr_mmap' = metadata_header + 1
    /\ UNCHANGED <<desc, identity, meta_exists, hdr_version, plot_exists, hdr_disk, meta, dirty_meta, plot, dirty_plot, opens,
                   procVars, sectors_metadata, sector_offset, sector_plotted, workVars, histVars>>
    /\ UNCHANGED wipeVars
    /\ UNCHANGED clock
    /\ UNCHANGED ctlVars

\* A worker that calls the sector_plotted handlers and leaves out the push.
PlotAnnounceOnly(retain) ==
    /\ plot_pc = "push"
    /\ permit_holders' = (permit_holders \ {"worker"})
                             \cup (IF retain THEN {"subscriber"} ELSE {})
    /\ lock_readers = {}
    /\ plot_pc' = "loop"
    /\ sector_plotted' = Append(sector_plotted, sector_offset)
    /\ sector_offset' = sector_offset + 1
    /\ UNCHANGED <<diskVars, opens, procVars, metadata_header, sectors_metadata, workVars,
                   histVars>>
    /\ UNCHANGED wipeVars
    /\ UNCHANGED clock
    /\ UNCHANGED <<run_result, tasks_done>>

\* `sectors_metadata.write().push(..)`, then handlers.sector_plotted is called
\* with Arc::new(plotting_permit), of which a subscriber keeps a clone or not
\* (`retain`), the worker drops its reference at the end of the statement, and
\* the loop goes to its next iteration.
PlotPushWith(retain) ==
    /\ plot_pc = "push"
    /\ permit_holders' = (permit_holders \ {"worker"})
                             \cup (IF retain THEN {"subscriber"} ELSE {})
    /\ lock_readers = {}
    /\ plot_pc' = "loop"
    /\ sectors_metadata' = Append(sectors_metadata, meta[sector_offset])
    /\ sector_plotted' = Append(sector_plotted, sector_offset)
    /\ sector_offset' = sector_offset + 1
    /\ UNCHANGED <<diskVars, opens, procVars, metadata_header, workVars, histVars>>
    /\ UNCHANGED wipeVars
    /\ UNCHANGED clock
    /\ UNCHANGED <<run_result, tasks_done>>

\* The same with subscribers that keep no reference to the permit.
PlotPush == PlotPushWith(FALSE)

\* A subscriber drops the clone of the permit it kept.
SubscriberRelease ==
    /\ "subscriber" \in permit_holders
    /\ permit_holders' = permit_holders \ {"subscriber"}
    /\ UNCHANGED <<diskVars, opens, procVars, plotVars, workVars, histVars>>
    /\ UNCHANGED wipeVars
    /\ UNCHANGED clock
    /\ UNCHANGED <<run_result, tasks_done>>

\* ------------------------------------------- another plot of the same farmer
\* A second SingleDiskPlot that was given the same concurrent_plotting_semaphore
\* runs the same plotting loop; the model keeps of it what the semaphore sees.
\* Its acquire_owned() returns a permit:
OtherPlotPermit ==
    /\ "other_worker" \notin permit_holders
    /\ PermitAvailable
    /\ permit_holders' = permit_holders \cup {"other_worker"}
    /\ UNCHANGED <<diskVars, opens, procVars, plotVars, workVars, histVars>>
    /\ UNCHANGED wipeVars
    /\ UNCHANGED clock
    /\ UNCHANGED <<run_result, tasks_done>>

\* it has plotted its sector and called its sector_plotted handlers, of which a
\* subscriber keeps the permit or not:
OtherPlotPush(retain) ==
    /\ "other_worker" \in permit_holders
    /\ permit_holders' = (permit_holders \ {"other_worker"})
                             \cup (IF retain THEN {"other_subscriber"} ELSE {})
    /\ UNCHANGED <<diskVars, opens, procVars, plotVars, workVars, histVars>>
    /\ UNCHANGED wipeVars
    /\ UNCHANGED clock
    /\ UNCHANGED <<run_result, tasks_done>>

\* its iteration ends with `?` or its future is dropped by the stop:
OtherPlotEnds ==
    /\ "other_worker" \in permit_holders
    /\ permit_holders' = permit_holders \ {"other_worker"}
    /\ UNCHANGED <<diskVars, opens, procVars, plotVars, workVars, histVars>>
    /\ UNCHANGED wipeVars
    /\ UNCHANGED clock
    /\ UNCHANGED <<run_result, tasks_done>>

\* and its subscriber drops the clone of the permit it kept.
OtherSubscriberRelease ==
    /\ "other_subscriber" \in permit_holders
    /\ permit_holders' = permit_holders \ {"other_subscriber"}
    /\ UNCHANGED <<diskVars, opens, procVars, plotVars, workVars, histVars>>
    /\ UNCHANGED wipeVars
    /\ UNCHANGED clock
    /\ UNCHANGED <<run_result, tasks_done>>

\* `?` on farmer_app_info, plot_sector, or a flush: the future ends with Err and
\* the thread forwards it through error_sender (only the first one is sent).
PlotErrorOf(pc) ==
    CASE pc = "app_info" -> "FailedToGetFarmerInfo"
      [] pc \in {"plot_sector", "writing"} -> "LowLevel"
      [] OTHER -> "Io"

\* A worker that can fail after it rewrote the header, before the push.
FallibleAndPush == {"app_info", "plot_sector", "writing", "flush_sector", "flush_meta", "push"}

\* The statements of one iteration that end with `?`: farmer_app_info,
\* plot_sector (before and after it wrote into the windows) and the two flushes.
PlotFallible == {"app_info", "plot_sector", "writing", "flush_sector", "flush_meta"}

PlotError ==
    /\ plot_pc \in PlotFallible
    /\ plot_pc' = "failed"
    /\ SendError(PlotErrorOf(plot_pc))
    /\ permit_holders' = permit_holders \ {"worker"}
    /\ UNCHANGED <<diskVars, opens, phase, opts, open_error, started, metadata_header,
                   sectors_metadata, sector_offset, sector_plotted, workVars, histVars>>
    /\ UNCHANGED wipeVars
    /\ UNCHANGED clock
    /\ UNCHANGED run_result

\* ------------------------------------------------------ slot forwarder task
\* The task is one of `tasks`, which run() polls:
\* `node_client.subscribe_slot_info().await`
FwdSubscribe(ok) ==
    /\ phase = "running"
    /\ fwd_pc = "idle"
    /\ fwd_pc' = IF ok THEN "subscribed" ELSE "failed"
    /\ tasks_done' = IF ok THEN tasks_done ELSE Append(tasks_done, "forwarder")
    /\ UNCHANGED <<diskVars, opens, procVars, plotVars, lock_readers, next_slot, chan,
                   farm_pc, farm_slot, farm_i, solutions, submitted, solution_events,
                   received, busy_arrivals, skipped, readVars, histVars>>
    /\ UNCHANGED wipeVars
    /\ UNCHANGED clock
    /\ UNCHANGED <<run_result, permit_holders>>

\* The receiver half lives in farming_fut, which is dropped when the thread returns.
ReceiverDropped == farm_pc \in {"exited", "failed", "aborted"}

\* Sender::try_send on mpsc::channel(0) with its single Sender.  The capacity of
\* the channel is buffer + number of senders = 1: a send is refused while the
\* message sent before it has not been taken by the receiver (the sender is
\* parked when it queues a message and unparked when the receiver pops it).
TrySendFails == ReceiverDropped \/ chan # <<>>

\* `while let Some(slot_info) = slot_info_notifications.next().await`, try_send.
FwdSlot ==
    /\ phase = "running"
    /\ fwd_pc = "subscribed"
    /\ next_slot <= MaxSlots
    /\ next_slot' = next_slot + 1
    /\ IF TrySendFails
       THEN /\ skipped' = skipped \cup {next_slot}
            /\ UNCHANGED chan
       ELSE /\ chan' = Append(chan, next_slot)
            /\ UNCHANGED skipped
    /\ busy_arrivals' = IF farm_pc \in {"audit", "submit"}
                        THEN busy_arrivals \cup {next_slot}
                        ELSE busy_arrivals
    /\ UNCHANGED <<diskVars, opens, procVars, plotVars, lock_readers, fwd_pc, farm_pc,
                   farm_slot, farm_i, solutions, submitted, solution_events, received,
                   readVars, histVars>>
    /\ UNCHANGED wipeVars
    /\ UNCHANGED clock
    /\ UNCHANGED ctlVars

\* ------------------------------------------------------------ farming thread
\* `start_receiver.recv().await`
FarmStart ==
    /\ farm_pc = "wait_start"
    /\ started
    /\ farm_pc' = "recv"
    /\ UNCHANGED <<diskVars, opens, procVars, plotVars, lock_readers, next_slot, fwd_pc,
                   chan, farm_slot, farm_i, solutions, submitted, solution_events,
                   received, busy_arrivals, skipped, readVars, histVars>>
    /\ UNCHANGED wipeVars
    /\ UNCHANGED clock
    /\ UNCHANGED ctlVars

\* A receiver that hands out the queued slot and leaves it queued.
Peeked(queue) == queue

\* What `slot_info_forwarder_receiver.next()` leaves in the channel.
AfterNext(queue) == Tail(queue)

\* Every chunk of plot.bin, plotted or not.
AllChunks == target_sector_count

\* `sectors_metadata.iter().zip(plot_mmap.chunks_exact(sector_size))`: the number
\* of sectors one slot audits.
SectorsToAudit == Min(Len(sectors_metadata), target_sector_count)

\* `SolutionResponse { slot_number, solutions }`
SolutionResponse(slot_number, sols) == [slot_number |-> slot_number, solutions |-> sols]

\* A worker that answers only when it has a solution.
RespondNonEmpty(slot_number, sols) ==
    /\ solution_events' = IF sols = <<>> THEN solution_events
                          ELSE Append(solution_events, SolutionResponse(slot_number, sols))
    /\ submitted' = IF sols = <<>> THEN submitted
                    ELSE Append(submitted, SolutionResponse(slot_number, sols))
    /\ farm_pc' = "submit"
    /\ farm_i' = 0
    /\ solutions' = <<>>

\* A worker that announces a response only when it holds a solution.
RespondSilently(slot_number, sols) ==
    /\ solution_events' = IF sols = <<>> THEN solution_events
                          ELSE Append(solution_events, SolutionResponse(slot_number, sols))
    /\ submitted' = Append(submitted, SolutionResponse(slot_number, sols))
    /\ farm_pc' = "submit"
    /\ farm_i' = 0
    /\ solutions' = <<>>

\* `handlers.solution.call_simple(&response);
\*  node_client.submit_solution_response(response)`: the call is made, its result
\* is awaited in "submit".
Respond(slot_number, sols) ==
    /\ solution_events' = Append(solution_events, SolutionResponse(slot_number, sols))
    /\ submitted' = Append(submitted, SolutionResponse(slot_number, sols))
    /\ farm_pc' = "submit"
    /\ farm_i' = 0
    /\ solutions' = <<>>

\* `slot_info_forwarder_receiver.next().await` returns a slot; the read guard
\* `sectors_metadata.read()` is taken and lives until the end of the iteration.
FarmRecv ==
    /\ farm_pc = "recv"
    /\ chan # <<>>
    /\ chan' = AfterNext(chan)
    /\ farm_slot' = Head(chan)
    /\ received' = Append(received, Head(chan))
    /\ lock_readers' = lock_readers \cup {"farming"}
    /\ IF SectorsToAudit = 0
       THEN Respond(Head(chan), <<>>)
       ELSE /\ farm_pc' = "audit"
            /\ farm_i' = 0
            /\ solutions' = <<>>
            /\ UNCHANGED <<submitted, solution_events>>
    /\ UNCHANGED <<diskVars, opens, procVars, plotVars, next_slot, fwd_pc,
                   busy_arrivals, skipped, readVars, histVars>>
    /\ UNCHANGED wipeVars
    /\ UNCHANGED clock
    /\ UNCHANGED ctlVars

\* The outcomes of proving the candidates audit_sector found in one sector
\* (none: audit_sector returned None).
CandidateOutcomes == UNION {[1..n -> {"ok", "err"}] : n \in 0..MaxCandidates}

\* A loop that never stops at the limit.
NoLimit(sols) == FALSE

\* `solutions.len() >= SOLUTIONS_LIMIT`
LimitReached(sols) == Len(sols) >= SOLUTIONS_LIMIT

\* `for maybe_solution in solution_candidates.into_iter(..)?`: a failed proof is
\* skipped, a solution is pushed, and the loop breaks at SOLUTIONS_LIMIT.
RECURSIVE ProveCandidates(_, _, _)
ProveCandidates(sols, outcomes, sector) ==
    IF outcomes = <<>> THEN sols
    ELSE IF Head(outcomes) = "err" THEN ProveCandidates(sols, Tail(outcomes), sector)
    ELSE IF LimitReached(Append(sols, sector)) THEN Append(sols, sector)
    ELSE ProveCandidates(Append(sols, sector), Tail(outcomes), sector)

\* One iteration of the loop over the plotted sectors: audit, prove, and the two
\* breaks after the inner loop; after the last iteration the response is sent.
FarmAuditSector(outcomes) ==
    /\ farm_pc = "audit"
    /\ LET sols == ProveCandidates(solutions, outcomes, farm_i)
       IN  IF LimitReached(sols) \/ sols # <<>> \/ farm_i + 1 >= SectorsToAudit
           THEN Respond(farm_slot, sols)
           ELSE /\ farm_i' = farm_i + 1
                /\ solutions' = sols
                /\ UNCHANGED <<farm_pc, submitted, solution_events>>
    /\ UNCHANGED <<diskVars, opens, procVars, plotVars, lock_readers, next_slot, fwd_pc,
                   chan, farm_slot, received, busy_arrivals, skipped, readVars, histVars>>
    /\ UNCHANGED wipeVars
    /\ UNCHANGED clock
    /\ UNCHANGED ctlVars

\* `solution_candidates.into_iter(..)?` fails: farming_fut ends with
\* LowLevelProving, before any response for the slot.
FarmProvingError ==
    /\ farm_pc = "audit"
    /\ farm_pc' = "aborted"
    /\ lock_readers' = lock_readers \ {"farming"}
    /\ SendError("LowLevelProving")
    /\ UNCHANGED <<diskVars, opens, phase, opts, open_error, started, plotVars, next_slot,
                   fwd_pc, chan, farm_slot, farm_i, solutions, submitted, solution_events,
                   received, busy_arrivals, skipped, readVars, histVars>>
    /\ UNCHANGED wipeVars
    /\ UNCHANGED clock
    /\ UNCHANGED <<run_result, permit_holders>>

\* A worker that logs a failed submission and waits for the next slot.
FarmSubmittedGoesOn(ok) ==
    /\ farm_pc = "submit"
    /\ lock_readers' = lock_readers \ {"farming"}
    /\ farm_pc' = "recv"
    /\ UNCHANGED <<diskVars, opens, procVars, plotVars, next_slot, fwd_pc, chan,
                   farm_slot, farm_i, solutions, submitted, solution_events, received,
                   busy_arrivals, skipped, readVars, histVars>>
    /\ UNCHANGED wipeVars
    /\ UNCHANGED clock
    /\ UNCHANGED ctlVars

\* `.await` of submit_solution_response returns; the iteration ends and the read
\* guard is dropped.
FarmSubmitted(ok) ==
    /\ farm_pc = "submit"
    /\ lock_readers' = lock_readers \ {"farming"}
    /\ IF ok
       THEN /\ farm_pc' = "recv"
            /\ UNCHANGED <<error_chan, tasks_done>>
       ELSE /\ farm_pc' = "failed"
            /\ SendError("FailedToSubmitSolutionsResponse")
    /\ UNCHANGED <<diskVars, opens, phase, opts, open_error, started, plotVars, next_slot,
                   fwd_pc, chan, farm_slot, farm_i, solutions, submitted, solution_events,
                   received, busy_arrivals, skipped, readVars, histVars>>
    /\ UNCHANGED wipeVars
    /\ UNCHANGED clock
    /\ UNCHANGED <<run_result, permit_holders>>

\* A farming thread that goes on waiting for the node's answer after the stop.
FarmWaitsOn ==
    /\ phase = "stopping"
    /\ farm_pc = "submit"
    /\ UNCHANGED vars

\* stop_receiver.recv() wins the select while submit_solution_response is
\* pending: farming_fut is dropped with its read guard.
FarmStop ==
    /\ phase = "stopping"
    /\ farm_pc = "submit"
    /\ farm_pc' = "exited"
    /\ lock_readers' = lock_readers \ {"farming"}
    /\ UNCHANGED <<diskVars, opens, procVars, plotVars, next_slot, fwd_pc, chan,
                   farm_slot, farm_i, solutions, submitted, solution_events, received,
                   busy_arrivals, skipped, readVars, histVars>>
    /\ UNCHANGED wipeVars
    /\ UNCHANGED clock
    /\ UNCHANGED ctlVars

\* The forwarder task has ended and dropped the sender: next() returns None.
FarmStreamEnd ==
    /\ farm_pc = "recv"
    /\ chan = <<>>
    /\ fwd_pc = "failed"
    /\ farm_pc' = "exited"
    /\ UNCHANGED <<diskVars, opens, procVars, plotVars, lock_readers, next_slot, fwd_pc,
                   chan, farm_slot, farm_i, solutions, submitted, solution_events,
                   received, busy_arrivals, skipped, readVars, histVars>>
    /\ UNCHANGED wipeVars
    /\ UNCHANGED clock
    /\ UNCHANGED ctlVars

\* ------------------------------------------------------------ reading thread
\* A lookup that answers with the last record when the offset is past the end.
GetOrLast(off) ==
    IF sectors_metadata = <<>> THEN <<>>
    ELSE <<sectors_metadata[Min(off + 1, Len(sectors_metadata))]>>

\* `sectors_metadata.get(sector_offset)`: Some(record) as <<record>>, None as <<>>.
SectorMetadataGet(off) ==
    IF off < Len(sectors_metadata) THEN <<sectors_metadata[off + 1]>> ELSE <<>>

\* A request for the sector at offset `off` (sector_index - first_sector_index)
\* is taken from read_piece_receiver and looked up under a read guard dropped at
\* once.  On None the error is logged and the loop is about to `continue`.
ReadTake(off) ==
    /\ phase \in {"ready", "running"}
    /\ read_pc = "idle"
    /\ IF SectorMetadataGet(off) # <<>>
       THEN /\ read_pc' = "read_piece"
            /\ read_off' = off
       ELSE /\ read_pc' = "dropped"
            /\ read_off' = 0
    /\ UNCHANGED <<diskVars, opens, procVars, plotVars, lock_readers, farmVars, histVars>>
    /\ UNCHANGED wipeVars
    /\ UNCHANGED clock
    /\ UNCHANGED ctlVars

\* A request whose sector_index is below first_sector_index: the u64 subtraction
\* `sector_index - first_sector_index` overflows.  A build with overflow checks
\* (the dev profile, or `overflow-checks = true`) panics there and the thread is
\* gone with the request; a build without them (the release profile) wraps, and
\* the lookup goes on with the wrapped offset.
ReadTakeBelow(sector_index, overflow_checks) ==
    /\ phase \in {"ready", "running"}
    /\ read_pc = "idle"
    /\ sector_index < desc.first_sector_index
    /\ LET off == wrapping_sub(sector_index, desc.first_sector_index)
       IN  IF overflow_checks
           THEN /\ read_pc' = "panicked"
                /\ read_off' = 0
           ELSE IF SectorMetadataGet(off) # <<>>
           THEN /\ read_pc' = "read_piece"
                /\ read_off' = off
           ELSE /\ read_pc' = "dropped"
                /\ read_off' = 0
    /\ UNCHANGED <<diskVars, opens, procVars, plotVars, lock_readers, farmVars, histVars>>
    /\ UNCHANGED wipeVars
    /\ UNCHANGED clock
    /\ UNCHANGED ctlVars

\* `continue`: response_sender goes out of scope unsent and the next request is
\* awaited.
ReadContinue ==
    /\ read_pc = "dropped"
    /\ read_pc' = "idle"
    /\ UNCHANGED <<diskVars, opens, procVars, plotVars, lock_readers, farmVars, read_off,
                   histVars>>
    /\ UNCHANGED wipeVars
    /\ UNCHANGED clock
    /\ UNCHANGED ctlVars

\* read_piece decodes from global_plot_mmap and the result is sent.
ReadPiece ==
    /\ read_pc = "read_piece"
    /\ read_pc' = "idle"
    /\ read_off' = 0
    /\ UNCHANGED <<diskVars, opens, procVars, plotVars, lock_readers, farmVars, histVars>>
    /\ UNCHANGED wipeVars
    /\ UNCHANGED clock
    /\ UNCHANGED ctlVars

\* ------------------------------------------------------ SingleDiskPlot::wipe
\* A removal after which the call returns at once.
RemoveFileAndReturn(file, exists, next) ==
    /\ wipe_removed' = IF exists THEN Append(wipe_removed, file) ELSE wipe_removed
    /\ wipe_pc' = "none"
    /\ wipe_result' = <<"Ok">>

\* `fs::remove_file(path)?`: the file is removed and the call goes on to `next`,
\* or the file is missing and the call returns the NotFound error.
RemoveFile(file, exists, next) ==
    IF exists
    THEN /\ wipe_removed' = Append(wipe_removed, file)
         /\ wipe_pc' = next
         /\ wipe_result' = IF next = "none" THEN <<"Ok">> ELSE wipe_result
    ELSE /\ wipe_pc' = "none"
         /\ wipe_result' = <<"NotFound", file>>
         /\ UNCHANGED wipe_removed

\* `SingleDiskPlotInfo::load_from(directory)`: without a descriptor the call
\* returns NotFound; with one it goes on to the files.
WipeLoad ==
    /\ phase = "closed"
    /\ wipe_pc = "none"
    /\ wipe_removed' = <<>>
    /\ IF desc = NoDesc
       THEN /\ wipe_result' = <<"NotFound", FILE_NAME>>
            /\ UNCHANGED wipe_pc
       ELSE /\ wipe_result' = <<"none">>
            /\ wipe_pc' = PLOT_FILE
    /\ UNCHANGED <<diskVars, opens, procVars, plotVars, workVars, histVars>>
    /\ UNCHANGED ctlVars
    /\ UNCHANGED clock

WipePlot ==
    /\ wipe_pc = PLOT_FILE
    /\ RemoveFile(PLOT_FILE, plot_exists, METADATA_FILE)
    /\ plot_exists' = FALSE
    /\ plot' = [u \in Units |-> ZeroUnit]
    /\ dirty_plot' = {}
    /\ UNCHANGED <<desc, identity, meta_exists, hdr_version, hdr_mmap, hdr_disk, meta,
                   dirty_meta>>
    /\ UNCHANGED <<opens, procVars, plotVars, workVars, histVars>>
    /\ UNCHANGED ctlVars
    /\ UNCHANGED clock

WipeMetadata ==
    /\ wipe_pc = METADATA_FILE
    /\ RemoveFile(METADATA_FILE, meta_exists, IDENTITY_FILE)
    /\ meta_exists' = FALSE
    /\ hdr_version' = SUPPORTED_PLOT_VERSION
    /\ hdr_mmap' = 0
    /\ hdr_disk' = 0
    /\ meta' = [k \in Units |-> ZeroUnit]
    /\ dirty_meta' = {}
    /\ UNCHANGED <<desc, identity, plot_exists, plot, dirty_plot>>
    /\ UNCHANGED <<opens, procVars, plotVars, workVars, histVars>>
    /\ UNCHANGED ctlVars
    /\ UNCHANGED clock

WipeIdentity ==
    /\ wipe_pc = IDENTITY_FILE
    /\ RemoveFile(IDENTITY_FILE, identity # NoIdentity, FILE_NAME)
    /\ identity' = NoIdentity
    /\ UNCHANGED <<desc, meta_exists, hdr_version, plot_exists, hdr_mmap, hdr_disk, meta,
                   dirty_meta, plot, dirty_plot>>
    /\ UNCHANGED <<opens, procVars, plotVars, workVars, histVars>>
    /\ UNCHANGED ctlVars
    /\ UNCHANGED clock

\* The descriptor is the last file removed; the directory starts a new history.
WipeInfo ==
    /\ wipe_pc = FILE_NAME
    /\ RemoveFile(FILE_NAME, desc # NoDesc, "none")
    /\ desc' = NoDesc
    /\ layouts' = {}
    /\ UNCHANGED <<identity, meta_exists, hdr_version, plot_exists, hdr_mmap, hdr_disk,
                   meta, dirty_meta, plot, dirty_plot>>
    /\ UNCHANGED <<opens, procVars, plotVars, workVars, crashed, opened_sector_count,
                   opened_plot>>
    /\ UNCHANGED ctlVars
    /\ UNCHANGED clock

\* The process that called wipe is killed between two removals.
WipeKilled ==
    /\ wipe_pc # "none"
    /\ wipe_pc' = "none"
    /\ wipe_result' = <<"killed">>
    /\ UNCHANGED wipe_removed
    /\ UNCHANGED <<diskVars, opens, procVars, plotVars, workVars, histVars>>
    /\ UNCHANGED ctlVars
    /\ UNCHANGED clock

\* ------------------------------------------------------------------ crashes
\* "opening": SingleDiskPlot::new had not returned; "midsector": bytes of sector
\* `sector` were written and its flushes were not both done; "flushed": they were
\* done and the header was not rewritten; "push": the header was rewritten and
\* the vector push was not done; "idle": anywhere else.
CrashStage ==
    IF phase = "opening" THEN "opening"
    ELSE IF plot_pc \in {"writing", "flush_sector", "flush_meta"} THEN "midsector"
    ELSE IF plot_pc = "commit" THEN "flushed"
    ELSE IF plot_pc = "push" THEN "push"
    ELSE "idle"

\* `committed`: the records the header counted when the crash hit.
CrashRecord(kind) ==
    [kind |-> kind, vector |-> sectors_metadata,
     committed |-> [i \in 1..hdr_mmap |-> meta[i - 1]], header |-> hdr_mmap,
     sector |-> sector_offset, stage |-> CrashStage, opts |-> opts, opens |-> opens]

\* The process is killed: memory is lost, the page cache is not.
Kill ==
    /\ phase # "closed"
    /\ crashed' = CrashRecord("kill")
    /\ ProcessGone
    /\ UNCHANGED <<diskVars, opens, open_error, layouts>>
    /\ UNCHANGED wipeVars
    /\ UNCHANGED clock
    /\ UNCHANGED run_result

\* Power is lost: what no flush made durable is kept or lost, page by page; the
\* header page (never flushed) holds any value it had since its durable one.
PowerLoss ==
    /\ phase # "closed"
    /\ crashed' = CrashRecord("power")
    /\ ProcessGone
    /\ \E h \in hdr_disk..hdr_mmap :
          /\ hdr_mmap' = h
          /\ hdr_disk' = h
    /\ \E lostp \in SUBSET dirty_plot, lostm \in SUBSET dirty_meta :
          /\ plot' = [u \in Units |-> IF u \in lostp THEN Torn(plot[u]) ELSE plot[u]]
          /\ meta' = [k \in Units |-> IF k \in lostm THEN Torn(meta[k]) ELSE meta[k]]
    /\ dirty_plot' = {}
    /\ dirty_meta' = {}
    /\ UNCHANGED <<desc, identity, meta_exists, hdr_version, plot_exists, opens, open_error, layouts>>
    /\ UNCHANGED wipeVars
    /\ UNCHANGED clock
    /\ UNCHANGED run_result

\* --------------------------------------------------------------------- Next
\* The life of the directory: opens with any options, plotting, stops, kills and
\* power losses.  No slot arrives and no piece is requested.
Next ==
    \/ \E a \in AllocatedSpaces, p \in PiecesChoices :
          opens < MaxOpens /\ OpenDescriptor(a, p, Genesis)
    \/ OpenFiles
    \/ Run
    \/ Drop
    \/ Exit
    \/ PlotStart
    \/ PlotLoop
    \/ \E closed \in BOOLEAN : PlotPermit(closed)
    \/ PlotAppInfo
    \/ PlotSectorWrite
    \/ PlotSectorOk
    \/ PlotFlushSector
    \/ PlotFlushMeta
    \/ PlotCommit
    \/ PlotPush
    \/ PlotError
    \/ Kill
    \/ PowerLoss

Spec == Init /\ [][Next]_vars

\* One process on a fresh directory: plotting, the slot forwarder, farming and
\* reading of plotted sectors side by side, until the plot is dropped.
NextFarm ==
    \/ \E p \in PiecesChoices :
          opens < MaxOpens /\ OpenDescriptor(MaxAllocated - 2, p, Genesis)
    \/ OpenFiles
    \/ Run
    \/ Drop
    \/ PlotStart
    \/ PlotLoop
    \/ \E closed \in BOOLEAN : PlotPermit(closed)
    \/ PlotAppInfo
    \/ PlotSectorWrite
    \/ PlotSectorOk
    \/ PlotFlushSector
    \/ PlotFlushMeta
    \/ PlotCommit
    \/ PlotPush
    \/ PlotError
    \/ \E ok \in BOOLEAN : FwdSubscribe(ok)
    \/ FwdSlot
    \/ FarmStart
    \/ FarmRecv
    \/ \E outcomes \in CandidateOutcomes : FarmAuditSector(outcomes)
    \/ FarmProvingError
    \/ \E ok \in BOOLEAN : FarmSubmitted(ok)
    \/ FarmStop
    \/ FarmStreamEnd
    \/ \E off \in Units : off < Len(sectors_metadata) /\ ReadTake(off)
    \/ ReadPiece

SpecFarm == Init /\ [][NextFarm]_vars

\* A thread that returns on the stop with the permit still counted as out.
PlotStoppedHolding ==
    /\ phase = "stopping"
    /\ plot_pc \in PlotAwaits
    /\ plot_pc' = "exited"
    /\ UNCHANGED <<diskVars, opens, procVars, metadata_header, sectors_metadata,
                   sector_offset, sector_plotted, workVars, histVars>>
    /\ UNCHANGED wipeVars
    /\ UNCHANGED clock
    /\ UNCHANGED ctlVars

\* select() of the plotting thread returns the stop at an await point, or
\* start_receiver.recv() returns the error of a dropped sender ("Dropped before
\* starting"): the thread returns without an error.
PlotStopped ==
    /\ phase = "stopping"
    /\ plot_pc \in PlotAwaits
    /\ plot_pc' = "exited"
    /\ permit_holders' = permit_holders \ {"worker"}
    /\ UNCHANGED <<diskVars, opens, procVars, metadata_header, sectors_metadata,
                   sector_offset, sector_plotted, workVars, histVars>>
    /\ UNCHANGED wipeVars
    /\ UNCHANGED clock
    /\ UNCHANGED <<run_result, tasks_done>>

\* The same for the farming thread while it waits for the start signal or for a
\* slot and none is queued.
FarmStopped ==
    /\ phase = "stopping"
    /\ \/ farm_pc = "wait_start"
       \/ farm_pc = "recv" /\ chan = <<>>
    /\ farm_pc' = "exited"
    /\ UNCHANGED <<diskVars, opens, procVars, plotVars, lock_readers, next_slot, fwd_pc,
                   chan, farm_slot, farm_i, solutions, submitted, solution_events,
                   received, busy_arrivals, skipped, readVars, histVars>>
    /\ UNCHANGED wipeVars
    /\ UNCHANGED clock
    /\ UNCHANGED ctlVars

\* The same for the reading thread while it waits for a request (Drop has closed
\* the readers as well).
ReadStopped ==
    /\ phase = "stopping"
    /\ read_pc = "idle"
    /\ read_pc' = "exited"
    /\ UNCHANGED <<diskVars, opens, procVars, plotVars, lock_readers, farmVars, read_off,
                   histVars>>
    /\ UNCHANGED wipeVars
    /\ UNCHANGED clock
    /\ UNCHANGED ctlVars

\* The steps a thread takes by itself: no answer of the node, of the piece
\* getter or of the semaphore is needed, no request, no slot.
PlotSteps ==
    \/ PlotStart
    \/ PlotLoop
    \/ PlotFlushSector
    \/ PlotFlushMeta
    \/ PlotCommit
    \/ PlotPush
    \/ PlotStopped

FarmSteps ==
    \/ FarmStart
    \/ FarmRecv
    \/ \E outcomes \in CandidateOutcomes : FarmAuditSector(outcomes)
    \/ FarmStop
    \/ FarmStopped
    \/ FarmStreamEnd

ReadSteps ==
    \/ ReadContinue
    \/ ReadPiece
    \/ ReadStopped

\* Each thread is an OS thread that runs its future with block_on: when it can
\* take a step by itself it takes one in the end, and so does the join.
ThreadsRun ==
    /\ WF_vars(PlotSteps)
    /\ WF_vars(FarmSteps)
    /\ WF_vars(ReadSteps)
    /\ WF_vars(Exit)

\* One process on a fresh directory from its open to the join of its threads:
\* SpecFarm with the return of each thread as a step of its own, for sectors of
\* one piece, requests for the first sector and for one never plotted, sectors
\* with no candidate or with one that proves, and one slot less than MaxSlots.
NextStop ==
    \/ opens = 0 /\ OpenDescriptor(MaxAllocated - 2, 1, Genesis)
    \/ OpenFiles
    \/ Run
    \/ Drop
    \/ Exit
    \/ PlotStart
    \/ PlotLoop
    \/ \E closed \in BOOLEAN : PlotPermit(closed)
    \/ PlotAppInfo
    \/ PlotSectorWrite
    \/ PlotSectorOk
    \/ PlotFlushSector
    \/ PlotFlushMeta
    \/ PlotCommit
    \/ PlotPush
    \/ PlotError
    \/ PlotStopped
    \/ \E ok \in BOOLEAN : FwdSubscribe(ok)
    \/ next_slot < MaxSlots /\ FwdSlot
    \/ FarmStart
    \/ FarmRecv
    \/ \E outcomes \in {<<>>, <<"ok">>} : FarmAuditSector(outcomes)
    \/ FarmProvingError
    \/ \E ok \in BOOLEAN : FarmSubmitted(ok)
    \/ FarmStop
    \/ FarmStopped
    \/ FarmStreamEnd
    \/ \E off \in {0, MaxAllocated - 1} : ReadTake(off)
    \/ ReadContinue
    \/ ReadPiece
    \/ ReadStopped

SpecStop == Init /\ [][NextStop]_vars /\ ThreadsRun

\* The life of a directory over opens with any options, on any chain, clean
\* stops and wipes: every run plots without error and ends with a drop; no wipe
\* runs while a process has the directory open, and no open during a wipe.
NextDir ==
    \/ \E a \in AllocatedSpaces, p \in PiecesChoices, g \in Chains :
          /\ opens < MaxOpens + 1
          /\ wipe_pc = "none"
          /\ OpenDescriptor(a, p, g)
    \/ OpenFiles
    \/ Run
    \/ Drop
    \/ Exit
    \/ PlotStart
    \/ PlotLoop
    \/ PlotPermit(FALSE)
    \/ PlotAppInfo
    \/ PlotSectorWrite
    \/ PlotSectorOk
    \/ PlotFlushSector
    \/ PlotFlushMeta
    \/ PlotCommit
    \/ PlotPush
    \/ WipeLoad
    \/ WipePlot
    \/ WipeMetadata
    \/ WipeIdentity
    \/ WipeInfo
    \/ WipeKilled

SpecDir == InitDir /\ [][NextDir]_vars

\* run() is awaited by its caller: when a task has ended with Err, the executor
\* polls run() in the end.
RunAwaited == WF_vars(RunReturns)

\* One process on a fresh directory whose run() is awaited until it returns:
\* plotting of sectors of one piece with subscribers that keep the permit or not,
\* the slot forwarder and farming, with every error the node, the piece getter
\* and the disk can answer with.  The plot is dropped by the return of run().
NextRun ==
    \/ opens = 0 /\ OpenDescriptor(MaxAllocated - 2, 1, Genesis)
    \/ OpenFiles
    \/ Run
    \/ RunReturns
    \/ Exit
    \/ PlotStart
    \/ PlotLoop
    \/ \E closed \in BOOLEAN : PlotPermit(closed)
    \/ PlotAppInfo
    \/ PlotSectorWrite
    \/ PlotSectorOk
    \/ PlotFlushSector
    \/ PlotFlushMeta
    \/ PlotCommit
    \/ \E retain \in BOOLEAN : PlotPushWith(retain)
    \/ SubscriberRelease
    \/ PlotError
    \/ PlotStopped
    \/ \E ok \in BOOLEAN : FwdSubscribe(ok)
    \/ next_slot < MaxSlots /\ FwdSlot
    \/ FarmStart
    \/ FarmRecv
    \/ \E outcomes \in {<<>>, <<"ok">>} : FarmAuditSector(outcomes)
    \/ FarmProvingError
    \/ \E ok \in BOOLEAN : FarmSubmitted(ok)
    \/ FarmStop
    \/ FarmStopped
    \/ FarmStreamEnd
    \/ ReadStopped

SpecRun == Init /\ [][NextRun]_vars /\ ThreadsRun /\ RunAwaited

\* What the plot does not decide: the semaphore hands out its permit once it is
\* free, a subscriber that kept the permit lets it go, the node and the piece
\* getter answer, and a submission returns.
AnswersCome ==
    /\ WF_vars(PlotPermit(FALSE))
    /\ WF_vars(SubscriberRelease)
    /\ WF_vars(PlotAppInfo)
    /\ WF_vars(PlotSectorWrite)
    /\ WF_vars(PlotSectorOk)
    /\ WF_vars(FarmSubmitted(TRUE))

\* One process on a fresh directory that runs without a stop and without an
\* error: plotting with subscribers that keep the permit for a while, and the
\* slot forwarder and farming beside it.
NextPlot ==
    \/ \E p \in PiecesChoices : opens = 0 /\ OpenDescriptor(MaxAllocated - 2, p, Genesis)
    \/ OpenFiles
    \/ Run
    \/ PlotStart
    \/ PlotLoop
    \/ PlotPermit(FALSE)
    \/ PlotAppInfo
    \/ PlotSectorWrite
    \/ PlotSectorOk
    \/ PlotFlushSector
    \/ PlotFlushMeta
    \/ PlotCommit
    \/ \E retain \in BOOLEAN : PlotPushWith(retain)
    \/ SubscriberRelease
    \/ FwdSubscribe(TRUE)
    \/ FwdSlot
    \/ FarmStart
    \/ FarmRecv
    \/ \E outcomes \in CandidateOutcomes : FarmAuditSector(outcomes)
    \/ FarmSubmitted(TRUE)

SpecPlot == Init /\ [][NextPlot]_vars /\ ThreadsRun /\ AnswersCome

\* The life of one directory over several processes, each with its three threads
\* and the slot forwarder: a process opens the directory with the options it was
\* created with, is run or not, serves requests for the first sector and for one
\* that is never plotted, and is dropped at any moment; the next process opens
\* what it left.  No step fails.
NextLife ==
    \/ opens < MaxOpens /\ OpenDescriptor(MaxAllocated - 2, 1, Genesis)
    \/ OpenFiles
    \/ Run
    \/ Drop
    \/ Exit
    \/ PlotStart
    \/ PlotLoop
    \/ PlotPermit(FALSE)
    \/ PlotAppInfo
    \/ PlotSectorWrite
    \/ PlotSectorOk
    \/ PlotFlushSector
    \/ PlotFlushMeta
    \/ PlotCommit
    \/ PlotPush
    \/ PlotStopped
    \/ FwdSubscribe(TRUE)
    \/ next_slot < MaxSlots - 1 /\ FwdSlot
    \/ FarmStart
    \/ FarmRecv
    \/ \E outcomes \in {<<>>, <<"ok">>} : FarmAuditSector(outcomes)
    \/ FarmSubmitted(TRUE)
    \/ FarmStop
    \/ FarmStopped
    \/ \E off \in {0, MaxAllocated - 1} : ReadTake(off)
    \/ ReadContinue
    \/ ReadPiece
    \/ ReadStopped

SpecLife == Init /\ [][NextLife]_vars /\ ThreadsRun

\* Two plots of one farmer on one plotting semaphore: this plot from its open on
\* a fresh directory to the stop of its plotting thread, with every error and
\* with a semaphore that may be closed, its subscribers, and beside it the
\* plotting loop of the other plot.
NextShare ==
    \/ opens = 0 /\ OpenDescriptor(MaxAllocated - 2, 1, Genesis)
    \/ OpenFiles
    \/ Run
    \/ Drop
    \/ PlotStart
    \/ PlotLoop
    \/ \E closed \in BOOLEAN : PlotPermit(closed)
    \/ PlotAppInfo
    \/ PlotSectorWrite
    \/ PlotSectorOk
    \/ PlotFlushSector
    \/ PlotFlushMeta
    \/ PlotCommit
    \/ \E retain \in BOOLEAN : PlotPushWith(retain)
    \/ SubscriberRelease
    \/ PlotError
    \/ PlotStopped
    \/ OtherPlotPermit
    \/ \E retain \in BOOLEAN : OtherPlotPush(retain)
    \/ OtherPlotEnds
    \/ OtherSubscriberRelease

SpecShare == Init /\ [][NextShare]_vars

\* One process on a directory created at any second of the clock: the open, the
\* run, plotting without error, the drop, and piece requests for every sector
\* index: of a plotted sector, of one never plotted, and below
\* first_sector_index, in a build with overflow checks or without.
NextIndex ==
    \/ Tick
    \/ opens = 0 /\ OpenDescriptor(MaxAllocated - 2, 1, Genesis)
    \/ OpenFiles
    \/ Run
    \/ Drop
    \/ Exit
    \/ PlotStart
    \/ PlotLoop
    \/ PlotPermit(FALSE)
    \/ PlotAppInfo
    \/ PlotSectorWrite
    \/ PlotSectorOk
    \/ PlotFlushSector
    \/ PlotFlushMeta
    \/ PlotCommit
    \/ PlotPush
    \/ PlotStopped
    \/ FarmStart
    \/ FarmStopped
    \/ \E off \in {0, MaxAllocated - 1} : ReadTake(off)
    \/ \E sector_index \in 0..(U64_VALUES - 1), overflow_checks \in BOOLEAN :
          ReadTakeBelow(sector_index, overflow_checks)
    \/ ReadContinue
    \/ ReadPiece
    \/ ReadStopped

SpecIndex == Init /\ [][NextIndex]_vars /\ ThreadsRun

\* `self.sectors_metadata.read().len()`
plotted_sectors_count == Len(sectors_metadata)

\* ================================================================ properties
Live == phase \in {"ready", "running", "stopping"}

\* A record of the vector, as a sector: the units of plot.bin it was written to.
RecordWindow(r) == {u \in Units : r[2] * r[3] <= u /\ u < (r[2] + 1) * r[3]}

\* The sector of record r is whole in plot.bin and in metadata.bin, and durable.
FullyFlushed(r) ==
    /\ r[1] = "data"
    /\ RecordWindow(r) # {}
    /\ meta[r[2]] = r
    /\ r[2] \notin dirty_meta
    /\ \A u \in RecordWindow(r) : plot[u] = r /\ u \notin dirty_plot

\* The directory was only ever opened with the options it was created with.
SameOptions == layouts = {sector_size(desc.pieces_in_sector)}

IsPrefix(s, t) == Len(s) <= Len(t) /\ \A i \in 1..Len(s) : s[i] = t[i]

\* ----------------------------------------------------------------------- C1
C1_Record == <<"data", sector_offset, SectorSizeInUse, opens>>

C1_Advance ==
    /\ metadata_header' = metadata_header + 1
    /\ hdr_mmap' = metadata_header'
    /\ sector_offset = metadata_header
    /\ FullyFlushed(C1_Record)

C1_Step ==
    (Live /\ phase' # "closed") =>
        /\ metadata_header' >= metadata_header
        /\ hdr_mmap' >= hdr_mmap
        /\ (metadata_header' # metadata_header \/ hdr_mmap' # hdr_mmap) => C1_Advance

\* C1: in a run of the plot, sector_count (the in-memory header and the header
\* bytes of metadata.bin) never decreases, and a step that advances it advances
\* both by one, for the sector offset k being plotted, in a state where the
\* window of sector k and the metadata record of sector k are whole and flushed.
C1_SectorCountAdvancesAfterFlush == [][C1_Step]_vars

\* The header was just advanced for a second sector, whose windows are flushed.
C1_Witness ==
    /\ plot_pc = "push"
    /\ sector_offset >= 1
    /\ metadata_header = sector_offset + 1
    /\ hdr_mmap = metadata_header
    /\ FullyFlushed(meta[sector_offset])

\* ----------------------------------------------------------------------- C2
\* C2: in every state of an open plot, which the farming thread, the reading
\* thread or plotted_sectors_count() can observe, the length of the in-memory
\* vector equals the sector_count of the metadata.bin header and both are at
\* most target_sector_count.
C2_VectorMatchesHeader ==
    Live => /\ Len(sectors_metadata) = hdr_mmap
            /\ hdr_mmap <= target_sector_count

\* ----------------------------------------------------------------------- C3
\* The state SingleDiskPlot::new returns in, when the process before it crashed
\* and every open used the same options.
C3_Reopened ==
    /\ phase = "ready"
    /\ crashed.kind # "none"
    /\ opens = crashed.opens + 1
    /\ opts = crashed.opts
    /\ SameOptions

\* C3 as stated: after a crash and a reopen with the same options, the sectors
\* of the vector are a prefix of the sectors of the vector before the crash, and
\* each is whole and flushed.
C3_PrefixOfObservable ==
    C3_Reopened =>
        /\ IsPrefix(sectors_metadata, crashed.vector)
        /\ \A i \in 1..Len(sectors_metadata) : FullyFlushed(sectors_metadata[i])

\* C3, amended: after a crash and a reopen with the same options, the sectors
\* of the vector are a prefix of the sectors the header counted before the
\* crash (the sectors of the vector before the crash and, when the crash hit
\* after the header rewrite and before the push, the sector of that push), and
\* each is whole and flushed.
C3_PrefixOfCommitted ==
    C3_Reopened =>
        /\ IsPrefix(sectors_metadata, crashed.committed)
        /\ crashed.stage # "opening" =>
               Len(crashed.committed) <= Len(crashed.vector) + 1
        /\ crashed.stage \notin {"opening", "push"} =>
               crashed.committed = crashed.vector
        /\ \A i \in 1..Len(sectors_metadata) : FullyFlushed(sectors_metadata[i])

\* A loss of power rolled the header back: the reopen loads a proper, non-empty
\* prefix of what was observable.
C3_Witness ==
    /\ C3_Reopened
    /\ crashed.kind = "power"
    /\ Len(sectors_metadata) >= 1
    /\ Len(sectors_metadata) < Len(crashed.vector)

\* ----------------------------------------------------------------------- C4
C4_ReopenedAfterKill ==
    /\ Live
    /\ crashed.kind = "kill"
    /\ opens = crashed.opens + 1
    /\ opts = crashed.opts
    /\ SameOptions

\* C4: after a kill and a reopen with the same options, the sector_count found
\* is the one of the header when the kill hit.  When the kill hit with sector k
\* written in part or not flushed, that is k: the vector loaded holds k sectors,
\* the first sector the new run plots is k, and once it has, the window of
\* sector k holds what the new run wrote.
C4_KillMidSector ==
    C4_ReopenedAfterKill =>
        /\ opened_sector_count = crashed.header
        /\ crashed.stage \in {"midsector", "flushed"} =>
              /\ crashed.header = crashed.sector
              /\ Len(sectors_metadata) - Len(sector_plotted) = crashed.sector
              /\ plot_pc \in {"plot_sector", "writing"} => sector_offset >= crashed.sector
              /\ sector_plotted # <<>> =>
                    /\ sector_plotted[1] = crashed.sector
                    /\ FullyFlushed(<<"data", crashed.sector, SectorSizeInUse, opens>>)

\* Sector 1 was killed mid-write, and the run after the reopen has plotted it.
C4_Witness ==
    /\ C4_ReopenedAfterKill
    /\ crashed.stage = "midsector"
    /\ crashed.sector >= 1
    /\ sector_plotted # <<>>

\* ----------------------------------------------------------------------- C5
\* The units read_piece reads for the sector at `off`.
ReadWindow(off) ==
    {u \in Units : off * sector_size(desc.pieces_in_sector) <= u
                   /\ u < (off + 1) * sector_size(desc.pieces_in_sector)}

\* The units the plotting thread has mapped for writing.
PlottingWindow ==
    IF plot_pc \in {"permit", "app_info", "plot_sector", "writing", "flush_sector",
                    "flush_meta", "commit"}
    THEN Window(sector_offset) ELSE {}

\* C5: whatever the interleaving, farming and reading are at sector offsets
\* below the length of the vector; every sector of the vector is whole and was
\* flushed; the sector plotting is at is not below that length; what farming
\* and reading read is disjoint from the window plotting writes, and whole.
C5_NoPartialSectorObserved ==
    Live =>
        /\ farm_pc = "audit" =>
              /\ farm_i < Len(sectors_metadata)
              /\ Window(farm_i) \cap PlottingWindow = {}
              /\ \A u \in Window(farm_i) : plot[u][1] = "data"
        /\ read_pc = "read_piece" =>
              /\ read_off < Len(sectors_metadata)
              /\ ReadWindow(read_off) \cap PlottingWindow = {}
              /\ \A u \in ReadWindow(read_off) : plot[u][1] = "data"
        /\ \A i \in 1..Len(sectors_metadata) : FullyFlushed(sectors_metadata[i])
        /\ PlottingWindow # {} => sector_offset >= Len(sectors_metadata)

\* Farming audits and reading reads while plot_sector is writing the next one.
C5_Witness ==
    /\ farm_pc = "audit"
    /\ read_pc = "read_piece"
    /\ plot_pc = "writing"
    /\ farm_i = Len(sectors_metadata) - 1

\* ----------------------------------------------------------------------- C6
C6_Step ==
    /\ plot_pc \in {"permit", "app_info", "plot_sector", "writing", "flush_sector",
                    "flush_meta", "commit", "push"} =>
          /\ sector_offset = opened_sector_count + Len(sector_plotted)
          /\ sector_offset < target_sector_count
    /\ (sector_plotted' # sector_plotted /\ phase' # "closed") =>
          /\ sector_plotted' =
                 Append(sector_plotted, opened_sector_count + Len(sector_plotted))
          /\ opened_sector_count + Len(sector_plotted) < target_sector_count
          /\ opened_sector_count' = opened_sector_count

\* C6: the sectors of one open are plotted, and their sector_plotted events are
\* emitted, at the offsets sector_count found at open, +1, +2, ... in that
\* order, each once, all below target_sector_count.
C6_AscendingOffsets == [][C6_Step]_vars

\* A reopened plot has emitted two events, the first at its sector_count.
C6_Witness ==
    /\ opened_sector_count >= 1
    /\ Len(sector_plotted) >= 2
    /\ sector_plotted[1] = opened_sector_count

\* ----------------------------------------------------------------------- C7
Slots(responses) == {responses[i].slot_number : i \in DOMAIN responses}

\* C7: a slot that arrives while the farming worker is processing the slot
\* before it is dropped: the worker never receives it and no SolutionResponse
\* is submitted for it.
C7_BusySlotDropped ==
    \A n \in busy_arrivals :
        /\ n \notin {received[i] : i \in DOMAIN received}
        /\ n \notin Slots(submitted)

\* ----------------------------------------------------------------------- C8
\* C8: no two SolutionResponses submitted carry the same slot number.
C8_OneResponsePerSlot ==
    \A i, j \in DOMAIN submitted :
        submitted[i].slot_number = submitted[j].slot_number => i = j

\* Two slots were answered, a third was refused by the channel, and the plot
\* is being stopped.
C8_Witness ==
    /\ Len(submitted) >= 2
    /\ skipped # {}
    /\ phase = "stopping"

\* ----------------------------------------------------------------------- C9
\* C9: every SolutionResponse submitted, and every one handed to the solution
\* handlers, carries at most SOLUTIONS_LIMIT solutions.
C9_SolutionsLimit ==
    /\ \A i \in DOMAIN submitted : Len(submitted[i].solutions) <= SOLUTIONS_LIMIT
    /\ \A i \in DOMAIN solution_events :
           Len(solution_events[i].solutions) <= SOLUTIONS_LIMIT

\* A response with a solution from the second of two plotted sectors.
C9_Witness ==
    /\ Len(sectors_metadata) >= 2
    /\ \E i \in DOMAIN submitted : submitted[i].solutions = <<1>>

\* ---------------------------------------------------------------------- C10
\* The slots whose processing ran to its end: all the received ones but the one
\* being audited and the one abandoned by a proving error.
C10_Finished ==
    IF farm_pc \in {"audit", "aborted"}
    THEN SubSeq(received, 1, Len(received) - 1)
    ELSE received

\* C10: the submit_solution_response calls are, in order, one for each slot the
\* worker received and finished, with that slot's number, whether or not the
\* response holds a solution.
C10_SubmitOncePerSlot ==
    [i \in 1..Len(submitted) |-> submitted[i].slot_number] = C10_Finished

\* An empty response with no sector plotted, and one with sectors plotted.
C10_Witness ==
    /\ Len(submitted) >= 2
    /\ submitted[1].solutions = <<>>
    /\ Len(sectors_metadata) >= 1
    /\ submitted[Len(submitted)].solutions = <<>>

\* ---------------------------------------------------------------------- C11
\* What the reading thread does with a request it takes.
C11_Step ==
    /\ (read_pc = "idle" /\ read_pc' = "read_piece")
          => read_off' < Len(sectors_metadata)
    /\ \A off \in Units :
          (off >= Len(sectors_metadata) /\ ReadTake(off)) => read_pc' = "dropped"
    /\ (read_pc = "dropped" /\ Live') => read_pc' \in {"dropped", "idle"}

\* C11: a request whose sector offset (sector_index - first_sector_index) is at or
\* past the length the vector has when the request is handled never reaches
\* read_piece, the only place a value is sent from: its response sender is
\* dropped, and the reading thread goes back to waiting for the next request.
C11_OutOfRangeDropped == [][C11_Step]_vars

\* A request past the end of a non-empty vector has just been dropped.
C11_Witness ==
    /\ read_pc = "dropped"
    /\ Len(sectors_metadata) >= 1
    /\ Len(sectors_metadata) < target_sector_count

\* ---------------------------------------------------------------------- C12
\* No thread of a process exists.
NoWorker == plot_pc = "none" /\ farm_pc = "none" /\ read_pc = "none"

\* metadata.bin and plot.bin: existence and content.
dataFiles == <<meta_exists, hdr_version, hdr_mmap, hdr_disk, meta, dirty_meta,
               plot_exists, plot, dirty_plot>>

\* The errors the claim names for options that disagree with the descriptor;
\* `public_key` is the key of the identity file the open finds or creates.
C12_Mismatches(allocated_space, max_pieces_in_sector, genesis_hash, public_key) ==
    {e \in {<<"CantResize">>, <<"WrongChain">>, <<"IdentityMismatch">>,
            <<"InvalidPiecesInSector">>} :
        \/ e = <<"CantResize">> /\ allocated_space # desc.allocated_space
        \/ e = <<"WrongChain">> /\ genesis_hash # desc.genesis_hash
        \/ e = <<"IdentityMismatch">> /\ public_key # desc.public_key
        \/ e = <<"InvalidPiecesInSector">> /\ max_pieces_in_sector < desc.pieces_in_sector}

C12_Step ==
    \A a \in AllocatedSpaces, p \in PiecesChoices, g \in Chains :
        (desc # NoDesc /\ OpenDescriptor(a, p, g)) =>
            LET expected == C12_Mismatches(a, p, g, identity')
            IN  IF expected = {}
                THEN phase' = "opening" /\ open_error' = NoError
                ELSE /\ open_error' \in expected
                     /\ phase' = "closed"
                     /\ NoWorker'
                     /\ UNCHANGED dataFiles
                     /\ UNCHANGED desc

\* C12: an open of a directory that holds a descriptor fails with CantResize,
\* WrongChain, IdentityMismatch or InvalidPiecesInSector when the allocated
\* space, the genesis hash or the identity key differs from the stored one or
\* max_pieces_in_sector is below the stored pieces_in_sector; it fails with no
\* thread spawned and with metadata.bin and plot.bin as they were; with none of
\* the four mismatches the open goes on.
C12_DescriptorMismatchFailsEarly == [][C12_Step]_vars

\* An open on another chain has just failed on a directory with plotted sectors.
C12_Witness ==
    /\ open_error = <<"WrongChain">>
    /\ phase = "closed"
    /\ hdr_mmap >= 1
    /\ plot_exists

\* ---------------------------------------------------------------------- C13
C13_Step ==
    \A a \in AllocatedSpaces, p \in PiecesChoices, g \in Chains :
        (desc = NoDesc /\ OpenDescriptor(a, p, g)) =>
            IF a < sector_size(p)
            THEN /\ open_error' = <<"InsufficientAllocatedSpace">>
                 /\ desc' = NoDesc
                 /\ UNCHANGED dataFiles
                 /\ phase' = "closed"
                 /\ NoWorker'
            ELSE /\ open_error' = NoError
                 /\ desc' # NoDesc

\* C13: an open of a directory without a descriptor whose allocated space is
\* below the size of one sector (target_sector_count 0) fails with
\* InsufficientAllocatedSpace and writes no descriptor, no metadata.bin and no
\* plot.bin; with room for a sector the descriptor is created.
C13_InsufficientSpaceWritesNothing == [][C13_Step]_vars

\* Such an open has failed on a directory that holds nothing but the identity.
C13_Witness ==
    /\ open_error = <<"InsufficientAllocatedSpace">>
    /\ desc = NoDesc
    /\ ~meta_exists
    /\ ~plot_exists
    /\ identity # NoIdentity

\* ---------------------------------------------------------------------- C14
C14_Step ==
    (OpenFiles /\ meta_exists) =>
        IF hdr_version # SUPPORTED_PLOT_VERSION
        THEN /\ open_error' = <<"UnexpectedMetadataVersion", hdr_version>>
             /\ phase' = "closed"
             /\ sectors_metadata' = <<>>
             /\ NoWorker'
        ELSE open_error'[1] # "UnexpectedMetadataVersion"

\* C14: an open that finds a metadata.bin that is not empty and whose header
\* carries a version other than the supported one (0) fails with
\* UnexpectedMetadataVersion carrying that version; no sector metadata is
\* loaded and no thread is started.
C14_UnexpectedVersionFails == [][C14_Step]_vars

\* Such an open has failed on the metadata.bin of another release.
C14_Witness ==
    /\ open_error = <<"UnexpectedMetadataVersion", hdr_version>>
    /\ hdr_version # SUPPORTED_PLOT_VERSION
    /\ meta_exists
    /\ phase = "closed"
    /\ NoWorker

\* ---------------------------------------------------------------------- C15
\* C15: in every open plot the sector size in use, by which plot.bin is laid
\* out (sector k in the units [k*S, (k+1)*S)), target_sector_count is computed
\* and the farming thread chunks plot.bin, is sector_size(pieces_in_sector) of
\* the descriptor, on creation and on every reopen.
C15_SectorSizeOfDescriptor ==
    phase # "closed" =>
        /\ SectorSizeInUse = sector_size(desc.pieces_in_sector)
        /\ target_sector_count = desc.allocated_space \div sector_size(desc.pieces_in_sector)
        /\ \A k \in 0..(target_sector_count - 1) :
              Window(k) = {u \in Units : /\ k * sector_size(desc.pieces_in_sector) <= u
                                         /\ u < (k + 1) * sector_size(desc.pieces_in_sector)}

\* ---------------------------------------------------------------------- C16
\* C16: while a plot is open, every unit of plot.bin that held the bytes of a
\* sector plotted before this open (a sector offset below the header
\* sector_count the open found) holds what it held when the plot was opened.
C16_PlottedSectorsUnchanged ==
    Live =>
        \A u \in Units :
            (opened_plot[u][1] = "data" /\ opened_plot[u][2] < opened_sector_count)
                => plot[u] = opened_plot[u]

\* ---------------------------------------------------------------------- C17
\* The order the claim gives.
C17_Order == <<PLOT_FILE, METADATA_FILE, IDENTITY_FILE, FILE_NAME>>

\* The file is in the directory.
FileExists(file) ==
    \/ file = PLOT_FILE /\ plot_exists
    \/ file = METADATA_FILE /\ meta_exists
    \/ file = IDENTITY_FILE /\ identity # NoIdentity
    \/ file = FILE_NAME /\ desc # NoDesc

\* The files of the order that the call in progress has not removed yet.
C17_Remaining == {C17_Order[i] : i \in (Len(wipe_removed) + 1)..Len(C17_Order)}

C17_Step ==
    /\ (WipeLoad /\ desc = NoDesc) =>
          /\ wipe_result' = <<"NotFound", FILE_NAME>>
          /\ wipe_removed' = <<>>
          /\ UNCHANGED diskVars
    /\ (WipeLoad /\ desc # NoDesc) =>
          /\ wipe_result' = <<"none">>
          /\ wipe_removed' = <<>>
          /\ UNCHANGED diskVars
    /\ (wipe_pc # "none" /\ \A file \in C17_Remaining : FileExists(file)) =>
          \/ UNCHANGED <<wipe_pc, wipe_removed, wipe_result, diskVars>>
          \/ wipe_result' = <<"killed">> /\ UNCHANGED <<wipe_removed, diskVars>>
          \/ /\ wipe_removed' = SubSeq(C17_Order, 1, Len(wipe_removed) + 1)
             /\ \A i \in 1..Len(C17_Order) :
                   FileExists(C17_Order[i])' <=> i > Len(wipe_removed')
             /\ wipe_result' = IF wipe_removed' = C17_Order THEN <<"Ok">> ELSE <<"none">>
    /\ (wipe_pc # "none" /\ wipe_result' = <<"Ok">>) =>
          wipe_removed' = C17_Order /\ FreshDirectory'

\* C17: a wipe of a directory that holds a descriptor and the three other files
\* removes plot.bin, metadata.bin, the identity file and the descriptor, one
\* after the other in that order, and returns Ok when the four are gone; a wipe
\* of a directory without a descriptor returns NotFound and removes no file.
C17_WipeOrder == [][C17_Step]_vars

\* A plot that a process of this release had opened has been wiped.
C17_Witness ==
    /\ wipe_result = <<"Ok">>
    /\ wipe_removed = C17_Order
    /\ FreshDirectory
    /\ opens >= 1

\* ---------------------------------------------------------------------- C18
\* C18: a wipe that found the descriptor does not fail on a plot.bin, a
\* metadata.bin or an identity file that is missing: the only NotFound a wipe
\* returns is the one for the descriptor, and a wipe that returned over missing
\* files has removed the descriptor with the rest.
C18_MissingFilesTolerated ==
    /\ wipe_result[1] = "NotFound" => wipe_result[2] = FILE_NAME
    /\ (wipe_pc = "none" /\ phase = "closed" /\ desc # NoDesc)
          => wipe_result \in {<<"none">>, <<"killed">>, <<"Ok">>, <<"NotFound", FILE_NAME>>}

\* ---------------------------------------------------------------------- C19
C19_Step ==
    (Live /\ ~started /\ ~started') =>
        /\ UNCHANGED <<desc, identity, dataFiles>>
        /\ UNCHANGED <<metadata_header, sectors_metadata, sector_plotted>>
        /\ UNCHANGED <<submitted, solution_events, received>>
        /\ error_chan' = "none"
        /\ Live' => /\ plot_pc' \in {"wait_start", "exited"}
                    /\ farm_pc' \in {"wait_start", "exited"}
        /\ phase = "stopping" => ENABLED PlotStopped \/ plot_pc = "exited"
        /\ phase = "stopping" => ENABLED FarmStopped \/ farm_pc = "exited"

\* C19: in a plot that was opened and is dropped before run() sent the start
\* signal, no step plots a sector, advances the sector count, submits a
\* SolutionResponse or changes a file of the directory; the plotting and the
\* farming thread wait for the start signal until the drop and then return
\* without an error.
C19_DroppedBeforeStart == [][C19_Step]_vars

\* Dropped without run(): the plotting and the farming thread have returned.
C19_Witness ==
    /\ phase = "stopping"
    /\ ~started
    /\ plot_pc = "exited"
    /\ farm_pc = "exited"
    /\ error_chan = "none"
    /\ hdr_mmap = opened_sector_count

\* ---------------------------------------------------------------------- C20
\* The three threads have returned.
C20_AllExited ==
    /\ plot_pc \in {"exited", "failed"}
    /\ farm_pc \in {"exited", "failed", "aborted"}
    /\ read_pc = "exited"

\* What a thread that has returned leaves alone, as long as the process lives.
C20_Step ==
    /\ (plot_pc \in {"exited", "failed"} /\ Live') =>
          /\ UNCHANGED <<dataFiles, desc>>
          /\ UNCHANGED <<metadata_header, sectors_metadata, sector_plotted>>
          /\ plot_pc' = plot_pc
    /\ (farm_pc \in {"exited", "failed", "aborted"} /\ Live') =>
          /\ UNCHANGED <<submitted, solution_events>>
          /\ farm_pc' = farm_pc
    /\ (read_pc = "exited" /\ Live') => read_pc' = read_pc
    /\ phase = "closed" => UNCHANGED <<dataFiles, submitted>> \/ phase' = "opening"
    /\ (phase = "stopping" /\ phase' = "closed") => UNCHANGED <<dataFiles, desc>>

\* C20: once the plot is dropped the plotting, the farming and the reading thread
\* return and are joined (the process is closed), whatever the node, the piece
\* getter and the semaphore do; and a thread that has returned writes nothing to
\* plot.bin or metadata.bin, does not advance the sector count and submits no
\* solution, nor does anything after the join.
C20_StopTerminates ==
    /\ (phase = "stopping") ~> (phase = "closed")
    /\ [][C20_Step]_vars

\* The plot ran, plotted a sector and answered a slot, was dropped, and the three
\* threads have returned.
C20_Witness ==
    /\ phase = "stopping"
    /\ C20_AllExited
    /\ sector_plotted # <<>>
    /\ submitted # <<>>

\* ---------------------------------------------------------------------- C21
\* The error a thread that has failed ended with, from its position.
C21_PlotFailure == PlotErrorOf(plot_pc)

C21_FarmFailure ==
    IF farm_pc' = "aborted" THEN "LowLevelProving" ELSE "FailedToSubmitSolutionsResponse"

\* The errors a thread sends through error_sender.
C21_ThreadErrors ==
    {"FailedToGetFarmerInfo", "LowLevel", "Io", "LowLevelProving",
     "FailedToSubmitSolutionsResponse"}

C21_Step ==
    /\ (error_chan = "none" /\ plot_pc # "failed" /\ plot_pc' = "failed")
          => error_chan' = C21_PlotFailure
    /\ (error_chan = "none" /\ farm_pc \notin {"failed", "aborted"}
           /\ farm_pc' \in {"failed", "aborted"})
          => error_chan' = C21_FarmFailure
    /\ (error_chan # "none" /\ Live') => error_chan' = error_chan
    /\ (run_result' # run_result /\ run_result' \in C21_ThreadErrors)
          => run_result' = error_chan /\ run_result = "none"
    /\ run_result # "none" => run_result' = run_result

\* C21: the first error a failing thread (plotting or farming) sends through the
\* one-shot error channel stays the content of the channel whatever fails
\* later; when run() returns an error of a thread it is that one, and once run()
\* has returned an error no other error replaces or follows it.
C21_FirstErrorOnly == [][C21_Step]_vars

\* Farming failed first and plotting later: run() has returned the error of
\* farming.
C21_Witness ==
    /\ plot_pc = "failed"
    /\ farm_pc = "failed"
    /\ error_chan = "FailedToSubmitSolutionsResponse"
    /\ run_result = "FailedToSubmitSolutionsResponse"

\* ---------------------------------------------------------------------- C22
\* The errors a task of `tasks` ends with.
C22_Errors == C21_ThreadErrors \cup {"FailedToSubscribeSlotInfo"}

\* The error of the task that ended first.
C22_FirstError == TaskError(Head(tasks_done))

C22_Step ==
    /\ (run_result = "none" /\ run_result' # "none") =>
          /\ phase = "running"
          /\ started
          /\ tasks_done # <<>>
          /\ run_result' = C22_FirstError
          /\ phase' = "stopping"
    /\ (tasks_done # <<>> /\ Live') => C22_FirstError' = C22_FirstError
    /\ (run_result \in C22_Errors /\ phase' # "opening") => run_result' = run_result

\* C22: once run() has sent the start signal, the first error a task ends with
\* (the error a failing thread sent through the error channel, or the failure of
\* the slot forwarder) is what run() returns in the end, it returns nothing
\* before and nothing else after, and its return is the drop of the plot: the
\* plot is stopping, then the three threads return and are joined.
C22_FirstTaskErrorStops ==
    /\ (phase = "running" /\ tasks_done # <<>>)
           ~> (run_result \in C22_Errors /\ phase = "closed")
    /\ [][C22_Step]_vars

\* The slot forwarder failed first and a thread failed later: run() has returned
\* the error of the forwarder and the plotting and farming threads have returned.
C22_Witness ==
    /\ run_result = "FailedToSubscribeSlotInfo"
    /\ error_chan # "none"
    /\ phase = "stopping"
    /\ plot_pc \in {"exited", "failed"}
    /\ farm_pc \in {"exited", "failed", "aborted"}

\* ---------------------------------------------------------------------- C23
\* The two errors of the node's RPC the claim names.
C23_Errors == {"FailedToSubmitSolutionsResponse", "FailedToSubscribeSlotInfo"}

C23_Step ==
    /\ (farm_pc = "submit" /\ FarmSubmitted(FALSE)) =>
          /\ farm_pc' = "failed"
          /\ error_chan = "none" => error_chan' = "FailedToSubmitSolutionsResponse"
    /\ (farm_pc = "failed" /\ Live') =>
          /\ farm_pc' = "failed"
          /\ UNCHANGED <<received, submitted, solution_events, farm_slot>>
    /\ (fwd_pc = "idle" /\ FwdSubscribe(FALSE)) =>
          /\ fwd_pc' = "failed"
          /\ tasks_done = <<>> => C22_FirstError' = "FailedToSubscribeSlotInfo"
    /\ (fwd_pc = "failed" /\ Live') =>
          /\ fwd_pc' = "failed"
          /\ UNCHANGED <<chan, next_slot, skipped>>
    /\ fwd_pc = "failed" =>
          chan = <<>> /\ received = <<>> /\ skipped = {} /\ submitted = <<>>

\* C23: when submit_solution_response fails the farming thread ends with
\* FailedToSubmitSolutionsResponse and receives, audits and answers no slot
\* afterwards; when subscribe_slot_info fails the slot forwarder ends with
\* FailedToSubscribeSlotInfo and no slot is ever forwarded, received or answered;
\* each of the two, when no task ended with an error before it, is what run()
\* returns.
C23_RpcFailuresFatal ==
    /\ \A e \in C23_Errors :
          (phase = "running" /\ tasks_done # <<>> /\ C22_FirstError = e)
              ~> (phase = "closed" /\ run_result = e)
    /\ [][C23_Step]_vars

\* The submission for a slot failed, a later slot was refused by the channel
\* whose receiver is gone, and run() has returned the error.
C23_Witness ==
    /\ run_result = "FailedToSubmitSolutionsResponse"
    /\ farm_pc = "failed"
    /\ fwd_pc = "subscribed"
    /\ skipped # {}
    /\ Len(received) = 1

\* ---------------------------------------------------------------------- C24
\* C24: whatever proving answers for the candidates of a sector, the farming
\* thread does not end for it: no proving error ends the thread or reaches the
\* error channel, and every slot the thread received and is no longer auditing
\* has its SolutionResponse.
C24_ProvingNeverFatal ==
    /\ farm_pc # "aborted"
    /\ error_chan # "LowLevelProving"
    /\ farm_pc # "audit" => Len(submitted) = Len(received)

\* ---------------------------------------------------------------------- C25
\* The positions of the plotting thread from the permit it got to the call of
\* the sector_plotted handlers.
C25_Plotting ==
    {"app_info", "plot_sector", "writing", "flush_sector", "flush_meta", "commit", "push"}

C25_Step ==
    /\ Live => ("worker" \in permit_holders <=> plot_pc \in C25_Plotting)
    /\ (Live' /\ sector_plotted' # sector_plotted) =>
          /\ "worker" \in permit_holders
          /\ permit_holders' \in {{}, {"subscriber"}}
    /\ (Live' /\ "subscriber" \in permit_holders) =>
          /\ plot_pc' \notin C25_Plotting
          /\ sector_plotted' = sector_plotted
          /\ UNCHANGED <<plot, meta, metadata_header>>
    /\ (Live' /\ plot_pc \notin C25_Plotting /\ plot_pc' \in C25_Plotting) =>
          /\ permit_holders = {}
          /\ permit_holders' = {"worker"}
    /\ (Live' /\ permit_holders # {} /\ permit_holders' = {}) =>
          \/ plot_pc' \in {"loop", "failed", "exited"} /\ plot_pc \in C25_Plotting
          \/ permit_holders = {"subscriber"} /\ UNCHANGED plot_pc

\* C25: the plotting thread holds the permit at every position from the
\* acquisition before plot_sector to the call of the sector_plotted handlers,
\* which are called while it holds it; the permit of a semaphore of one permit
\* is free only when neither the thread nor a subscriber holds a reference, and
\* while a subscriber keeps its reference the thread does not leave the
\* acquisition: it plots nothing and announces nothing.
C25_PermitHeldUntilReleased == [][C25_Step]_vars

\* The first sector is plotted, a subscriber kept the permit, and the plotting
\* thread waits for the permit of the second sector.
C25_Witness ==
    /\ phase = "running"
    /\ "subscriber" \in permit_holders
    /\ plot_pc = "permit"
    /\ sector_plotted = <<0>>

\* ---------------------------------------------------------------------- C26
\* C26: the calls of the solution handlers are, in order, the SolutionResponses
\* handed to submit_solution_response: one event for each slot whose iteration
\* reached its response, with that slot's number and the same solutions, and no
\* two events for one slot.
C26_EventMatchesResponse ==
    /\ solution_events = submitted
    /\ [i \in 1..Len(solution_events) |-> solution_events[i].slot_number] = C10_Finished
    /\ \A i, j \in DOMAIN solution_events :
          solution_events[i].slot_number = solution_events[j].slot_number => i = j

\* An event with a solution and an event without one, and the worker back at
\* its receive.
C26_Witness ==
    /\ farm_pc = "recv"
    /\ Len(solution_events) >= 2
    /\ \E i \in DOMAIN solution_events : solution_events[i].solutions # <<>>
    /\ \E i \in DOMAIN solution_events : solution_events[i].solutions = <<>>

\* ---------------------------------------------------------------------- C27
\* Every sector is plotted: the header counts target_sector_count sectors, the
\* vector holds them, and one event was emitted for each offset, in order.
C27_AllPlotted ==
    /\ plot_pc = "exited"
    /\ metadata_header = target_sector_count
    /\ hdr_mmap = target_sector_count
    /\ Len(sectors_metadata) = target_sector_count
    /\ sector_plotted = [i \in 1..target_sector_count |-> i - 1]

\* C27: in a plot that is started and neither stopped nor hit by an error, when
\* the permit is handed out once it is free, the node and the piece getter
\* answer and the submissions return, the plotting thread plots every sector:
\* sector_count reaches target_sector_count and the sector_plotted events are
\* those of the offsets 0 to target_sector_count - 1, one each.
C27_PlottingCompletes == (phase = "running") ~> C27_AllPlotted

\* Two sectors are plotted while the farming thread has answered a slot.
C27_Witness ==
    /\ C27_AllPlotted
    /\ target_sector_count = 2
    /\ submitted # <<>>

\* ---------------------------------------------------------------------- C28
\* The positions where the plotting thread waits (for the start signal, the
\* permit, the node or plot_sector), is between two sectors, or has returned.
C28_Quiescent ==
    {"wait_start", "loop", "permit", "app_info", "plot_sector", "writing", "exited",
     "failed"}

\* C28: whenever the plotting thread of an open plot waits or has returned, for
\* whatever reason, the vector has as many entries as the header of
\* metadata.bin counts sectors; in particular a thread the stop has ended never
\* leaves the header rewritten and the vector not pushed.
C28_QuiescentVectorMatchesHeader ==
    (Live /\ plot_pc \in C28_Quiescent) => Len(sectors_metadata) = hdr_mmap

\* ---------------------------------------------------------------------- C29
\* C29: when SingleDiskPlot::new has returned a plot, the vector is the first
\* sector_count records of metadata.bin, for the sector_count the header of
\* metadata.bin holds: as many entries as the header counts, none for a
\* metadata.bin that was just created.
C29_VectorIsHeaderPrefix ==
    phase = "ready" =>
        /\ opened_sector_count = hdr_mmap
        /\ sectors_metadata = [i \in 1..hdr_mmap |-> meta[i - 1]]

\* ---------------------------------------------------------------------- C30
\* The plotting thread returns for the stop: sector_offset is the sector in
\* progress, or the one the thread would have plotted next.
C30_Stopped ==
    /\ phase = "stopping"
    /\ Live'
    /\ plot_pc \notin {"exited", "failed"}
    /\ plot_pc' = "exited"

C30_Step ==
    /\ C30_Stopped =>
          /\ metadata_header' = sector_offset
          /\ hdr_mmap' = sector_offset
          /\ Len(sectors_metadata') = sector_offset
          /\ UNCHANGED <<metadata_header, hdr_mmap, sectors_metadata, sector_plotted>>
          /\ UNCHANGED <<plot, meta, error_chan>>
          /\ \A i \in DOMAIN sector_plotted : sector_plotted[i] < sector_offset
          /\ \A i \in 1..sector_offset :
                /\ sectors_metadata[i][2] = i - 1
                /\ FullyFlushed(sectors_metadata[i])
    /\ (plot_pc = "exited" /\ Live') =>
          /\ UNCHANGED <<metadata_header, hdr_mmap, sectors_metadata, sector_plotted>>
          /\ UNCHANGED <<plot, meta, dirty_plot, dirty_meta>>

\* C30: when the stop ends the plotting thread at sector k (it waits for the
\* permit, for the node or for plot_sector, or is between two sectors), the
\* header, the in-memory sector count and the vector stay at k, no
\* sector_plotted event is emitted for k, no error is sent, the sectors 0..k-1
\* are whole and flushed in plot.bin and metadata.bin and stay in the vector,
\* and nothing of it changes until the process is over.
C30_StopDiscardsOnlySectorInProgress == [][C30_Step]_vars

\* The stop came while plot_sector was writing sector 1: the window of sector 1
\* is torn, sector 0 is whole and the header counts one sector.
C30_Witness ==
    /\ phase = "stopping"
    /\ plot_pc = "exited"
    /\ sector_offset = 1
    /\ meta[1][1] = "torn"
    /\ hdr_mmap = 1
    /\ sector_plotted = <<0>>
    /\ FullyFlushed(sectors_metadata[1])

\* ---------------------------------------------------------------------- C31
\* The error each failing statement of an iteration ends the plotting future with.
C31_ErrorAt ==
    [app_info |-> "FailedToGetFarmerInfo", plot_sector |-> "LowLevel",
     writing |-> "LowLevel", flush_sector |-> "Io", flush_meta |-> "Io"]

C31_Fails ==
    /\ Live'
    /\ plot_pc \notin {"failed", "exited"}
    /\ plot_pc' = "failed"

C31_Step ==
    /\ C31_Fails =>
          /\ plot_pc \in DOMAIN C31_ErrorAt
          /\ error_chan = "none" => error_chan' = C31_ErrorAt[plot_pc]
          /\ error_chan # "none" => UNCHANGED error_chan
          /\ metadata_header' = sector_offset
          /\ hdr_mmap' = sector_offset
          /\ Len(sectors_metadata') = sector_offset
          /\ UNCHANGED <<metadata_header, hdr_mmap, hdr_disk, sectors_metadata,
                         sector_plotted>>
          /\ \A i \in DOMAIN sector_plotted' : sector_plotted'[i] < sector_offset
    /\ (plot_pc = "failed" /\ Live') =>
          /\ plot_pc' = "failed"
          /\ UNCHANGED <<metadata_header, hdr_mmap, hdr_disk, sectors_metadata,
                         sector_plotted, sector_offset>>
          /\ UNCHANGED <<plot, meta, dirty_plot, dirty_meta>>

\* C31: when farmer_app_info, plot_sector or one of the two flushes fails for
\* sector k, the plotting thread ends with that error (sent through the error
\* channel when no error was sent before); the in-memory sector_count, the
\* header of metadata.bin and the vector are what they were before sector k was
\* started (all count k sectors), no sector_plotted event for k is emitted, and
\* the thread does nothing afterwards.
C31_FailureLeavesSectorUncounted == [][C31_Step]_vars

\* The flush of the metadata record of sector 1 failed after sector 0 was
\* plotted: the header and the vector count one sector.
C31_Witness ==
    /\ plot_pc = "failed"
    /\ error_chan = "Io"
    /\ sector_offset = 1
    /\ meta[1][1] = "data"
    /\ 1 \in dirty_meta
    /\ hdr_mmap = 1
    /\ Len(sectors_metadata) = 1
    /\ sector_plotted = <<0>>

\* ---------------------------------------------------------------------- C32
\* C32: until run() has sent the start signal no thread works: the plotting
\* thread has not entered its loop, the farming thread has taken no slot, and
\* the reading thread is not serving a request with a piece.
C32_NoWorkBeforeStart ==
    (Live /\ ~started) =>
        /\ plot_pc \in {"wait_start", "exited"}
        /\ farm_pc \in {"wait_start", "exited"}
        /\ read_pc # "read_piece"

\* ---------------------------------------------------------------------- C33
\* C33: the farming thread holds its read guard of the vector for the snapshot
\* only: it holds none while it audits and proves and none while the solution
\* handlers have run and it awaits submit_solution_response, so the push of the
\* plotting thread never finds the lock read-held by a slot in progress.
C33_ReadLockOnlyForSnapshot ==
    /\ farm_pc \in {"audit", "submit"} => "farming" \notin lock_readers
    /\ plot_pc = "push" => "farming" \notin lock_readers

\* ---------------------------------------------------------------------- C34
\* The sectors of this plot that hold bytes and are not counted by the header.
C34_Unfinished == {k \in Units : k >= hdr_mmap /\ meta[k] # ZeroUnit}

\* C34: on a semaphore of PlottingPermits permits shared by two plots, the
\* sectors between the acquisition of their permit and its release (being built
\* by a worker, or built with the permit kept by a subscriber) are never more
\* than PlottingPermits; a worker that builds a sector holds a permit; and one
\* plot builds one sector at a time: the only sector with bytes the header does
\* not count is the one of the current iteration.
C34_AtMostPermitsInFlight ==
    /\ Cardinality(permit_holders) <= PlottingPermits
    /\ (Live /\ plot_pc \in C25_Plotting) => "worker" \in permit_holders
    /\ (Live /\ plot_pc \notin C25_Plotting) => "worker" \notin permit_holders
    /\ C34_Unfinished \subseteq {sector_offset}

\* The other plot builds a sector while this one, which has plotted its first
\* sector, waits for the permit of its second.
C34_Witness ==
    /\ "other_worker" \in permit_holders
    /\ plot_pc = "permit"
    /\ sector_plotted = <<0>>

\* ---------------------------------------------------------------------- C35
\* acquire_owned() has returned the error of a closed semaphore: the plotting
\* thread leaves the acquisition and returns, and no stop was signalled.
C35_Closed ==
    /\ phase = "running"
    /\ phase' = "running"
    /\ plot_pc = "permit"
    /\ plot_pc' = "exited"

C35_PlottingErrors == {"FailedToGetFarmerInfo", "LowLevel", "Io"}

C35_Step ==
    /\ (Live' /\ plot_pc = "permit") => plot_pc' \in {"permit", "app_info", "exited"}
    /\ C35_Closed =>
          /\ UNCHANGED <<error_chan, tasks_done, run_result>>
          /\ UNCHANGED <<metadata_header, hdr_mmap, hdr_disk, sectors_metadata,
                         sector_plotted, sector_offset>>
          /\ UNCHANGED <<plot, meta, dirty_plot, dirty_meta, permit_holders>>
          /\ UNCHANGED <<farm_pc, fwd_pc, chan, read_pc, lock_readers>>
    /\ (Live' /\ plot_pc = "exited") =>
          /\ plot_pc' = "exited"
          /\ error_chan' # error_chan => error_chan' \notin C35_PlottingErrors
          /\ UNCHANGED <<metadata_header, hdr_mmap, hdr_disk, sectors_metadata,
                         sector_plotted>>
    /\ (phase' = "running" /\ plot_pc = "exited") =>
          /\ read_pc' # "exited"
          /\ farm_pc' = "exited" => fwd_pc = "failed"

\* C35: when the semaphore is closed at the acquisition, the plotting thread
\* returns without an error: nothing is sent through the error channel, no task
\* ends, sector_count, the header, the vector and the events are unchanged then
\* and afterwards, and while the plot is not stopped the reading thread goes on
\* and the farming thread goes on until its slot stream ends or it fails itself.
C35_ClosedSemaphoreExitsCleanly == [][C35_Step]_vars

\* The semaphore was closed after the first of two sectors: the plotting thread
\* has returned with no error sent, the farming thread has answered a slot over
\* the plotted sector and the reading thread serves a request.
C35_Witness ==
    /\ phase = "running"
    /\ plot_pc = "exited"
    /\ metadata_header = 1
    /\ target_sector_count = 2
    /\ error_chan = "none"
    /\ tasks_done = <<>>
    /\ farm_pc = "submit"
    /\ read_pc = "read_piece"

\* ---------------------------------------------------------------------- C36
\* The offset the sector_plotted handlers are called with in this step.
C36_Offset == sector_plotted'[Len(sector_plotted')]

C36_Step ==
    (Live' /\ sector_plotted' # sector_plotted) =>
        LET k == C36_Offset
        IN  /\ sector_plotted' = Append(sector_plotted, k)
            /\ k = sector_offset
            /\ metadata_header' = k + 1
            /\ hdr_mmap' = k + 1
            /\ UNCHANGED <<metadata_header, hdr_mmap, plot, meta, dirty_plot, dirty_meta>>
            /\ plotted_sectors_count' = k + 1
            /\ sectors_metadata'[k + 1] = meta'[k]
            /\ sectors_metadata'[k + 1][1] = "data"
            /\ sectors_metadata'[k + 1][2] = k
            /\ k \notin dirty_meta'
            /\ Window(k) # {}
            /\ \A u \in Window(k) : plot'[u] = meta'[k] /\ u \notin dirty_plot'

\* C36: when the sector_plotted handlers are called for offset k, sector k is
\* committed: both windows were written whole and flushed, the header of
\* metadata.bin and the in-memory sector_count are k + 1 (rewritten before the
\* call), and the vector holds the record of sector k as its last element, so
\* plotted_sectors_count() is k + 1 when a handler reads it.
C36_CommitBeforeEvent == [][C36_Step]_vars

\* The handlers were called for sector 1 of a plot whose sector 0 an earlier
\* process had plotted.
C36_Witness ==
    /\ opens = 2
    /\ opened_sector_count = 1
    /\ sector_plotted = <<1>>
    /\ plotted_sectors_count = 2
    /\ hdr_mmap = 2

\* ---------------------------------------------------------------------- C37
\* The step creates the descriptor: an open that found none stores one made of
\* its options, of the identity of the directory and of the clock.
C37_Created ==
    /\ desc = NoDesc
    /\ phase = "closed"
    /\ phase' = "opening"
    /\ open_error' = NoError
    /\ desc' = [pieces_in_sector |-> opts'.max_pieces_in_sector,
                allocated_space |-> opts'.allocated_space,
                genesis_hash |-> opts'.genesis_hash,
                public_key |-> identity',
                first_sector_index |-> wrapping_mul(clock, U32_MAX)]

\* The step is the last removal of a wipe.
C37_Wiped ==
    /\ wipe_pc = FILE_NAME
    /\ desc' = NoDesc

C37_Step ==
    /\ desc' # desc => C37_Created \/ C37_Wiped
    /\ C37_Created => ~meta_exists /\ ~plot_exists /\ UNCHANGED <<meta_exists, plot_exists>>
    /\ (~meta_exists /\ meta_exists') => desc # NoDesc /\ UNCHANGED desc
    /\ (~plot_exists /\ plot_exists') => desc # NoDesc /\ UNCHANGED desc
    /\ phase # "closed" => UNCHANGED desc

\* C37: single_disk_plot.json is written only by an open that finds none, and
\* that open writes it before it creates metadata.bin and plot.bin; no other
\* step of an open (failed or not), of a reopen with the same or other options,
\* or of a thread of the process changes it: its values stay what the creating
\* open stored until the last removal of a wipe.
C37_DescriptorWrittenOnce == [][C37_Step]_vars

\* The directory was opened a second time with a larger max_pieces_in_sector
\* than the one it was created with, and the descriptor still holds the first.
C37_Witness ==
    /\ opens = 2
    /\ phase = "ready"
    /\ opts.max_pieces_in_sector = 2
    /\ desc.pieces_in_sector = 1
    /\ plot_exists

\* ---------------------------------------------------------------------- C38
\* The sector indexes of a plot of n sectors whose first index is `first`.
C38_Range(first, n) == first..(first + n - 1)

\* C38: the descriptor created at second `clock` gets first_sector_index =
\* clock * 2^32 as a u64 (2^IndexBits here, the number of values of a u32), so
\* that its range of sector indexes and the range of a plot created at an
\* earlier second are disjoint when each plot holds fewer than 2^32 sectors.
C38_Step ==
    (desc = NoDesc /\ desc' # NoDesc) =>
        /\ desc'.first_sector_index = (clock * 2^IndexBits) % U64_VALUES
        /\ \A secs \in 0..(clock - 1), n \in 1..(2^IndexBits - 1) :
              C38_Range(desc'.first_sector_index, n)
                  \cap C38_Range(wrapping_mul(secs, U32_MAX), n) = {}

C38_FirstSectorIndexScaled == [][C38_Step]_vars

\* ---------------------------------------------------------------------- C39
\* C39: a request whose sector_index is below first_sector_index is handled as
\* one for a sector not yet plotted: the subtraction does not end the reading
\* thread and selects no plotted sector, so no piece is read and the response
\* sender is dropped unsent, and the thread goes on to the next request.
C39_Step ==
    /\ \A sector_index \in 0..(U64_VALUES - 1), overflow_checks \in BOOLEAN :
          ReadTakeBelow(sector_index, overflow_checks) => read_pc' = "dropped"
    /\ read_pc = "dropped" => read_pc' \in {"dropped", "idle"}
    /\ read_pc' # "panicked"

C39_BelowFirstIndexDropped == [][C39_Step]_vars

\* ---------------------------------------------------------------------- C40
\* The positions at which the plotting thread holds no permit: it has not
\* acquired one for the iteration, or it has returned.
C40_Outside == {"none", "wait_start", "loop", "permit", "failed", "exited"}

C40_Step ==
    /\ (Live /\ plot_pc \in C40_Outside) => "worker" \notin permit_holders
    /\ (Live' /\ plot_pc' \in C40_Outside) => "worker" \notin permit_holders'
    /\ (Live' /\ "worker" \in permit_holders /\ plot_pc' \in {"failed", "exited"}) =>
          permit_holders' = permit_holders \ {"worker"}
    /\ (Live' /\ "worker" \in permit_holders /\ plot_pc' = "loop") =>
          /\ sector_plotted' = Append(sector_plotted, sector_offset)
          /\ \/ permit_holders' = permit_holders \ {"worker"}
             \/ permit_holders' = (permit_holders \ {"worker"}) \cup {"subscriber"}
    /\ (Live' /\ "worker" \in permit_holders /\ permit_holders' = {}) => PermitAvailable'

\* C40: the permit the plotting thread acquired for a sector is given back on
\* every way out of the iteration: when farmer_app_info, plot_sector or a flush
\* fails, when the stop arrives in the middle of the sector, and when the sector
\* is announced and no subscriber keeps the permit, the worker's reference is
\* gone after the step and the semaphore has the permit again; the thread never
\* returns and never starts the next iteration with a permit in hand.
C40_PermitsConserved == [][C40_Step]_vars

\* The stop came while plot_sector was writing the first sector, and the other
\* plot has acquired the permit this thread gave back.
C40_Witness ==
    /\ phase = "stopping"
    /\ plot_pc = "exited"
    /\ sector_offset = 0
    /\ meta[0][1] = "torn"
    /\ permit_holders = {"other_worker"}

====
